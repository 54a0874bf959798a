------------------------------ MODULE Sessions ------------------------------
(***************************************************************************)
(* Accounts and sessions: signup and login (backend/api/routes/auth.ts     *)
(* over services/auth), the token that a request carries and its check     *)
(* (middleware/requireAuth.ts), and a browser tab's session, which lives   *)
(* in its memory only (frontend/hooks/useAuth.tsx, lib/api.ts). Tabs race  *)
(* for the same e-mail address, Postgres loses the acknowledgement of a    *)
(* commit, tokens expire, and answers come in any order.                   *)
(*                                                                         *)
(* The limiter of logins is that of RateLimiter; a request that it         *)
(* refuses, or that is malformed, fails here. A password stands for its    *)
(* bcrypt hash as well: they match iff they are the same.                  *)
(***************************************************************************)
EXTENDS Integers, FiniteSets

CONSTANTS
  Tabs, Emails, Passwords,
  Asks,           (* that may be open together, of all tabs                   *)
  MaxTokens,      (* bound of the model: tokens signed                        *)
  MaxLosses       (* bound of the model: requests and acknowledgements lost   *)

Nobody == "nobody"
NoToken == 0

ASSUME SessionsAssumption ==
  /\ Tabs # {} /\ Emails # {} /\ Passwords # {}
  /\ Nobody \notin Emails /\ Nobody \notin Passwords
  /\ MaxTokens \in Nat /\ MaxLosses \in Nat

VARIABLES
  account,      (* [Emails -> Passwords \cup {Nobody}], the users table       *)
  signed,       (* [1..Len -> Emails]: whom the tokens are for, in their order *)
  expired,      (* tokens past their accessTokenTtlSeconds                    *)
  tab,          (* [Tabs -> TabState]                                         *)
  ask,          (* [Asks -> AskState], the requests                           *)
  held,         (* history: [Tabs -> the tokens the tab has had]              *)
  losses

sessionsVars == <<account, signed, expired, tab, ask, held, losses>>

Token == 0..MaxTokens

(* user, token: AuthContext and authToken; password: history, as typed for *)
(* this session; ended: history, what ended the last one: a logout, the    *)
(* refusal of a token, or that of a request without one.                   *)
TabState == [user : Emails \cup {Nobody}, token : Token,
             password : Passwords \cup {Nobody},
             ended : {"no", "hand", "refused", "stray"}]

Anonymous == [user |-> Nobody, token |-> NoToken, password |-> Nobody, ended |-> "no"]

Kinds == {"signup", "login", "call"}

AskState == [at : {"idle", "asked", "stored", "ok", "401", "error"}, kind : Kinds,
                 tab : Tabs, email : Emails, password : Passwords, token : Token]

Unsent == [at |-> "idle", kind |-> "call", tab |-> CHOOSE t \in Tabs : TRUE,
           email |-> CHOOSE e \in Emails : TRUE, password |-> CHOOSE p \in Passwords : TRUE,
           token |-> NoToken]

SessionsInit ==
  /\ account = [e \in Emails |-> Nobody]
  /\ signed = [k \in {} |-> Nobody] /\ expired = {}
  /\ tab = [t \in Tabs |-> Anonymous]
  /\ ask = [r \in Asks |-> Unsent]
  /\ held = [t \in Tabs |-> {}] /\ losses = 0

Lose == losses < MaxLosses /\ losses' = losses + 1

(* The next free one; which it is makes no difference. *)
Unused(r) == ask[r].at = "idle" /\ r = CHOOSE q \in Asks : ask[q].at = "idle"

Settle(r, outcome) == ask' = [ask EXCEPT ![r].at = outcome]

-----------------------------------------------------------------------------
(* Definitions named Faulty... are seeded faults: each replaces the        *)
(* definition after it in a run that must then find a property violated.   *)

(* handleSubmit of the two pages; only who is anonymous sees them. The     *)
(* pages lead to each other while an answer is due.                        *)
SubmitAuth(r, t, kind, e, p) ==
  /\ Unused(r) /\ tab[t].user = Nobody
  /\ ask' = [ask EXCEPT ![r] = [at |-> "asked", kind |-> kind, tab |-> t,
                                        email |-> e, password |-> p, token |-> NoToken]]
  /\ UNCHANGED <<account, signed, expired, tab, held, losses>>

(* Any other endpoint, with the token of the moment: none after a session  *)
(* has ended, when a callback of a page that is gone still refetches       *)
(* (onTransitioned of StateMachineControl.tsx, onSubmitted of RcaForm.tsx).*)
CallApi(r, t) ==
  /\ Unused(r)
  /\ tab[t].user # Nobody \/ held[t] # {}
  /\ ask' = [ask EXCEPT ![r] = [Unsent EXCEPT !.at = "asked", !.tab = t,
                                                      !.token = tab[t].token]]
  /\ UNCHANGED <<account, signed, expired, tab, held, losses>>

(* Fault: the address is looked up first, and the row written whatever     *)
(* was written since.                                                      *)
FaultyFree(r) == TRUE

(* The unique index. *)
Free(r) == account[ask[r].email] = Nobody

(* users.create, with the retries of withPostgresRetry: created, or        *)
(* P2002, "duplicate_email"; also when the first try was committed and its *)
(* acknowledgement lost.                                                   *)
Create(r) ==
  /\ ask[r].kind = "signup" /\ ask[r].at = "asked"
  /\ \/ /\ Free(r)
        /\ account' = [account EXCEPT ![ask[r].email] = ask[r].password]
        /\ \/ Settle(r, "stored") /\ UNCHANGED losses
           \/ Settle(r, "error") /\ Lose
     \/ /\ ~ Free(r)
        /\ Settle(r, "error")
        /\ UNCHANGED <<account, losses>>
  /\ UNCHANGED <<signed, expired, tab, held>>

(* findByEmail, then a comparison that is made in any case. *)
CheckPassword(r) ==
  /\ ask[r].kind = "login" /\ ask[r].at = "asked"
  /\ Settle(r, IF account[ask[r].email] = ask[r].password THEN "stored" ELSE "401")
  /\ UNCHANGED <<account, signed, expired, tab, held, losses>>

(* signAccessToken, and the 200 or 201. *)
Sign(r) ==
  /\ ask[r].at = "stored"
  /\ LET k == Cardinality(DOMAIN signed) + 1
     IN  /\ k <= MaxTokens
         /\ signed' = [j \in 1..k |-> IF j = k THEN ask[r].email ELSE signed[j]]
         /\ ask' = [ask EXCEPT ![r].at = "ok", ![r].token = k]
  /\ UNCHANGED <<account, expired, tab, held, losses>>

(* requireAuth, verifyAccessToken: signature and expiry, no look at users. *)
Verify(r) ==
  /\ ask[r].kind = "call" /\ ask[r].at = "asked"
  /\ Settle(r, IF ask[r].token \in DOMAIN signed \ expired THEN "ok" ELSE "401")
  /\ UNCHANGED <<account, signed, expired, tab, held, losses>>

Expire(k) ==
  /\ k \in DOMAIN signed \ expired
  /\ expired' = expired \cup {k}
  /\ UNCHANGED <<account, signed, tab, ask, held, losses>>

-----------------------------------------------------------------------------
(* The tab.                                                                *)

(* AUTH_PATHS_EXEMPT_FROM_UNAUTHORIZED_HANDLER *)
Exempt(r) == ask[r].kind # "call"

(* applySession; the unauthorized handler, whatever token was refused and  *)
(* if there was none; or a message. Under a session, an answer to a login  *)
(* asked before it is applied as well.                                     *)
AnswerOf(r) ==
  LET t == ask[r].tab
  IN  \/ /\ ask[r].kind # "call" /\ ask[r].at = "ok"
         /\ tab' = [tab EXCEPT ![t] = [user |-> ask[r].email, token |-> ask[r].token,
                                       password |-> ask[r].password, ended |-> "no"]]
         /\ held' = [held EXCEPT ![t] = @ \cup {ask[r].token}]
      \/ /\ ask[r].at = "401" /\ ~ Exempt(r) /\ tab[t].user # Nobody
         /\ tab' = [tab EXCEPT ![t] =
                      [Anonymous EXCEPT !.ended = IF ask[r].token = NoToken THEN "stray"
                                                                            ELSE "refused"]]
         /\ UNCHANGED held
      \/ /\ \/ ask[r].at = "error"
            \/ ask[r].at = "ok" /\ ask[r].kind = "call"
            \/ ask[r].at = "401" /\ (Exempt(r) \/ tab[t].user = Nobody)
         /\ UNCHANGED <<tab, held>>

Deliver(r) ==
  /\ ask[r].at \in {"ok", "401", "error"}
  /\ AnswerOf(r)
  /\ ask' = [ask EXCEPT ![r] = Unsent]
  /\ UNCHANGED <<account, signed, expired, losses>>

(* Network or time-out, before or after the server's part; 4xx, 5xx.       *)
RequestFails(r) ==
  /\ Lose
  /\ ask[r].at # "idle"
  /\ ask' = [ask EXCEPT ![r] = Unsent]
  /\ UNCHANGED <<account, signed, expired, tab, held>>

(* The server's logout changes nothing: the tab forgets its token. *)
LogoutByHand(t) ==
  /\ tab[t].user # Nobody
  /\ tab' = [tab EXCEPT ![t] = [Anonymous EXCEPT !.ended = "hand"]]
  /\ UNCHANGED <<account, signed, expired, ask, held, losses>>

(* The memory of the tab is gone, and with it whoever waits for an answer. *)
CloseTab(t) ==
  /\ Lose
  /\ tab' = [tab EXCEPT ![t] = Anonymous] /\ held' = [held EXCEPT ![t] = {}]
  /\ ask' = [r \in Asks |-> IF ask[r].tab = t THEN Unsent ELSE ask[r]]
  /\ UNCHANGED <<account, signed, expired>>

-----------------------------------------------------------------------------

SessionsNext ==
  \/ \E r \in Asks, t \in Tabs :
       \/ CallApi(r, t)
       \/ \E kind \in {"signup", "login"}, e \in Emails, p \in Passwords :
            SubmitAuth(r, t, kind, e, p)
  \/ \E r \in Asks : Create(r) \/ CheckPassword(r) \/ Sign(r) \/ Verify(r) \/ Deliver(r)
                         \/ RequestFails(r)
  \/ \E k \in 1..MaxTokens : Expire(k)
  \/ \E t \in Tabs : LogoutByHand(t) \/ CloseTab(t)

SessionsSpec == SessionsInit /\ [][SessionsNext]_sessionsVars

-----------------------------------------------------------------------------

SessionsTypeOK ==
  /\ account \in [Emails -> Passwords \cup {Nobody}]
  /\ DOMAIN signed \in SUBSET (1..MaxTokens) /\ \A k \in DOMAIN signed : signed[k] \in Emails
  /\ expired \subseteq DOMAIN signed
  /\ tab \in [Tabs -> TabState] /\ ask \in [Asks -> AskState]
  /\ held \in [Tabs -> SUBSET (1..MaxTokens)] /\ losses \in Nat

(* A session is had with the password of the account it is of, however     *)
(* signups of one address raced ("a pre-check has a TOCTOU race",          *)
(* authService.ts), and its token is for that account. But for a logout or *)
(* a closed tab it ends when a token of this tab has expired, or, if it is *)
(* not the tab's first, at the answer to a request that went out without a *)
(* token between two sessions; never at a wrong password ("a failed login  *)
(* attempt can never itself trigger a redirect loop", lib/api.ts).         *)
SessionsAreEarned ==
  \A t \in Tabs :
    /\ tab[t].user # Nobody => /\ account[tab[t].user] = tab[t].password
                               /\ tab[t].token \in DOMAIN signed
                               /\ signed[tab[t].token] = tab[t].user
    /\ tab[t].ended = "refused" => held[t] \cap expired # {}
    /\ tab[t].ended = "stray" => \E j, k \in held[t] : j # k

=============================================================================
