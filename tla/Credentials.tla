----------------------------- MODULE Credentials -----------------------------
(***************************************************************************)
(* Credentials (config.py, and login and logout of api.py): files that      *)
(* processes share, and in each process the token of its configuration and  *)
(* of its cached client.                                                    *)
(*                                                                          *)
(* The site is external: it accepts a token for everything, for reading     *)
(* only, or not at all.  A cookie jar stands for the token it carries; the  *)
(* file with the user's name is written and removed but read by nothing.    *)
(***************************************************************************)
EXTENDS Naturals

CONSTANTS
  Procs,
  Full, Scoped,    \* tokens the site accepts, for everything or for reading only
  Bad,             \* tokens it rejects
  MaxLogins        \* logins in all (model bound)

Tokens == Full \cup Scoped \cup Bad
None   == "none"
NoUse  == ""       \* the token that means to use none

ConstantsOK == /\ Full \cap Scoped = {} /\ Bad \cap (Full \cup Scoped) = {}
               /\ {None, NoUse} \cap Tokens = {} /\ MaxLogins \in Nat

VARIABLES
  cookies, git,         \* the files; the token each one was written for
  token, out, over,     \* config.token, _logged_out and _token_overridden
  client,               \* the token of the cached legacy client; "absent" without one
  pc, new, before,      \* a login: where it is, its token, the state it found
  sent,                 \* the token of the process's last request through a client
  jar,                  \* the token of the last cookie jar it has sent
  again,                \* history: those whose logout left the cookie file, or since whose
                        \* logout somebody has stored a token
  logins

files  == <<cookies, git>>
memory == <<token, out, over, client>>
login  == <<pc, new, before>>
carried == <<sent, jar>>
vars   == <<files, memory, login, carried, again, logins>>

Fresh == [token |-> None, out |-> FALSE]

\* HubConfig: an explicit token or the environment's counts, even the empty one; without
\* one the stored token is loaded.
Init ==
  /\ cookies \in {None} \cup Full /\ git = cookies
  /\ over \in [Procs -> BOOLEAN]
  /\ token \in [Procs -> {NoUse, cookies} \cup Full]
  /\ \A p \in Procs : IF over[p] THEN token[p] # None ELSE token[p] = cookies
  /\ out = [p \in Procs |-> FALSE] /\ client = [p \in Procs |-> "absent"]
  /\ pc = [p \in Procs |-> "idle"] /\ new = [p \in Procs |-> None]
  /\ before = [p \in Procs |-> Fresh]
  /\ sent = [p \in Procs |-> None] /\ jar = [p \in Procs |-> None]
  /\ again = {} /\ logins = 0

Go(p, l)       == pc' = [pc EXCEPT ![p] = l]
Over(p)        == /\ Go(p, "idle") /\ new' = [new EXCEPT ![p] = None]
                  /\ before' = [before EXCEPT ![p] = Fresh]
Given(v)       == v \notin {None, NoUse}
\* A client that exists takes a token over; the next request makes one.
Synced(p, t)   == [client EXCEPT ![p] = IF @ = "absent" THEN @ ELSE t]

\* load_token: nothing after a logout.
\* (Mutant: what is stored counts again.)
LoadTokenStill(p) == cookies
LoadToken(p)      == IF out[p] THEN None ELSE cookies

\* A request through the OpenAPI client: the token of the configuration, or the stored
\* one, which the configuration then keeps.
Resolve(p) == IF ~Given(token[p]) /\ ~over[p] THEN LoadToken(p) ELSE token[p]
Request(p) ==
  /\ pc[p] = "idle"
  /\ sent' = [sent EXCEPT ![p] = Resolve(p)]
  /\ token' = [token EXCEPT ![p] = IF Given(Resolve(p)) THEN Resolve(p) ELSE @]
  /\ UNCHANGED <<files, out, over, client, login, jar, again, logins>>

\* Through the legacy client: made with the token of the configuration, or synchronised.
LegacyRequest(p) ==
  /\ pc[p] = "idle"
  /\ client' = [client EXCEPT ![p] = token[p]] /\ sent' = [sent EXCEPT ![p] = token[p]]
  /\ UNCHANGED <<files, token, out, over, login, jar, again, logins>>

\* get_cookies: the token of the configuration, or the stored cookies, which are loaded
\* after a logout too.  The old class sends the jar with an AIGC model's weights, and
\* raises without one.
Jar(p) == IF Given(token[p]) THEN token[p] ELSE IF over[p] THEN None ELSE cookies
CookieRequest(p) ==
  /\ pc[p] = "idle" /\ Given(Jar(p))
  /\ jar' = [jar EXCEPT ![p] = Jar(p)]
  /\ UNCHANGED <<files, memory, login, sent, again, logins>>

\* login: the new token is in place before the site is asked.
Login(p, t) ==
  /\ pc[p] = "idle" /\ logins < MaxLogins /\ logins' = logins + 1
  /\ before' = [before EXCEPT ![p] = [token |-> token[p], out |-> out[p]]]
  /\ new' = [new EXCEPT ![p] = t]
  /\ token' = [token EXCEPT ![p] = t] /\ out' = [out EXCEPT ![p] = FALSE]
  /\ client' = Synced(p, t)
  /\ Go(p, "ask")
  /\ UNCHANGED <<files, over, carried, again>>

\* _restore_credential_state.
\* (Mutant: the rejected token stays in place.)
RestoredFlag(p) == [before[p] EXCEPT !.token = new[p]]
Restored(p)     == before[p]
Restore(p) ==
  /\ token' = [token EXCEPT ![p] = Restored(p).token]
  /\ out' = [out EXCEPT ![p] = Restored(p).out]
  /\ client' = Synced(p, Restored(p).token)
  /\ Over(p) /\ UNCHANGED <<files, over, carried, again, logins>>

\* The site accepts the token; or refuses it, and the token alone is checked; or the
\* request itself fails.
Accepted(p) ==
  /\ pc[p] = "ask" /\ new[p] \in Full
  /\ client' = [client EXCEPT ![p] = new[p]] /\ Go(p, "cookies")
  /\ UNCHANGED <<files, token, out, over, new, before, carried, again, logins>>
Refused(p)   == pc[p] = "ask" /\ new[p] \in Bad /\ Restore(p)
AskFails(p)  == pc[p] = "ask" /\ Restore(p)
ScopedLogin(p) ==
  /\ pc[p] = "ask" /\ new[p] \in Scoped
  /\ client' = [client EXCEPT ![p] = new[p]] /\ Go(p, "token")
  /\ UNCHANGED <<files, token, out, over, new, before, carried, again, logins>>

\* What the login has obtained is stored file by file; a write that fails, or the last
\* request, ends it as it is then.
Wrote(p, l) ==
  /\ Go(p, l)
  /\ UNCHANGED <<memory, new, before, carried, logins>>
StoresToken(p) == cookies' = new[p] /\ again' = Procs
SaveCookies(p) ==
  /\ pc[p] = "cookies" /\ StoresToken(p) /\ Wrote(p, "git") /\ UNCHANGED git
SaveGit(p) ==
  /\ pc[p] = "git" /\ git' = new[p] /\ Wrote(p, "user")
  /\ UNCHANGED <<cookies, again>>
SaveToken(p) ==
  /\ pc[p] = "token" /\ StoresToken(p) /\ Wrote(p, "scoped_user")
  /\ UNCHANGED git
SaveUser(p) ==
  /\ UNCHANGED <<files, memory, carried, again, logins>>
  /\ \/ pc[p] = "user" /\ Go(p, "whoami") /\ UNCHANGED <<new, before>>
     \/ pc[p] = "scoped_user" /\ Over(p)
LoginFails(p) ==
  /\ pc[p] \in {"cookies", "git", "user", "whoami", "token", "scoped_user"}
  /\ Over(p) /\ UNCHANGED <<files, memory, carried, again, logins>>

\* The profile is read with the new token.
Whoami(p) ==
  /\ pc[p] = "whoami" /\ Over(p)
  /\ sent' = [sent EXCEPT ![p] = Resolve(p)]
  /\ UNCHANGED <<files, memory, jar, again, logins>>

\* logout: every file is removed; one that cannot be is left.
Logout(p) ==
  /\ pc[p] = "idle"
  /\ token' = [token EXCEPT ![p] = None] /\ out' = [out EXCEPT ![p] = TRUE]
  /\ client' = Synced(p, None)
  /\ sent' = [sent EXCEPT ![p] = None] /\ jar' = [jar EXCEPT ![p] = None]
  /\ cookies' \in {cookies, None} /\ git' \in {git, None}
  /\ again' = IF cookies' = None THEN again \ {p} ELSE again \cup {p}
  /\ UNCHANGED <<over, login, logins>>

\* A process ends at any point, and another one starts.
Restart(p) ==
  /\ token' = [token EXCEPT ![p] = cookies] /\ over' = [over EXCEPT ![p] = FALSE]
  /\ out' = [out EXCEPT ![p] = FALSE] /\ client' = [client EXCEPT ![p] = "absent"]
  /\ sent' = [sent EXCEPT ![p] = None] /\ jar' = [jar EXCEPT ![p] = None]
  /\ again' = again \ {p}
  /\ Over(p) /\ UNCHANGED <<files, logins>>

Next ==
  \E p \in Procs :
    \/ \E t \in Tokens : Login(p, t)
    \/ Request(p) \/ LegacyRequest(p) \/ CookieRequest(p) \/ Accepted(p) \/ Refused(p) \/ AskFails(p)
    \/ ScopedLogin(p) \/ SaveCookies(p) \/ SaveGit(p) \/ SaveToken(p) \/ SaveUser(p)
    \/ LoginFails(p) \/ Whoami(p) \/ Logout(p) \/ Restart(p)

Spec == Init /\ [][Next]_vars

-----------------------------------------------------------------------------
(* Properties                                                               *)

Values == Tokens \cup {None, NoUse}
TypeOK ==
  /\ {cookies, git} \subseteq Values
  /\ token \in [Procs -> Values] /\ out \in [Procs -> BOOLEAN]
  /\ over \in [Procs -> BOOLEAN] /\ client \in [Procs -> Values \cup {"absent"}]
  /\ pc \in [Procs -> {"idle", "ask", "cookies", "git", "user", "whoami", "token",
                       "scoped_user"}]
  /\ new \in [Procs -> Tokens \cup {None}]
  /\ sent \in [Procs -> Values] /\ jar \in [Procs -> Values]
  /\ again \subseteq Procs /\ logins \in 0..MaxLogins

\* After a logout, until somebody logs in in it, neither the configuration of a process nor
\* its clients hold or send a credential, though another process may log in meanwhile and a
\* file may have resisted.  A cookie jar may still carry one: never in a process that was
\* told which token to use, and never the credential the logout removed, only one that it
\* could not remove or that somebody has stored since.
LoggedOutStaysOut ==
  \A p \in Procs : pc[p] = "idle" /\ out[p] =>
    /\ ~Given(token[p]) /\ (client[p] = "absent" \/ ~Given(client[p])) /\ ~Given(sent[p])
    /\ Given(jar[p]) => ~over[p] /\ p \in again

\* A process told to use no token sends none, not even a stored one, by any way.
NoneSendsNone ==
  \A p \in Procs : pc[p] = "idle" /\ token[p] = NoUse => ~Given(sent[p]) /\ ~Given(jar[p])

\* A token the site has rejected is never stored, and after the login is not used.
RejectedIsForgotten ==
  /\ {cookies, git} \cap Bad = {}
  /\ \A p \in Procs : pc[p] = "idle" => {token[p], sent[p], jar[p]} \cap Bad = {}

\* Stronger, and false of the code: a jar carries nothing after a logout either.
LoggedOutSendsNone == \A p \in Procs : pc[p] = "idle" /\ out[p] => ~Given(jar[p])
=============================================================================
