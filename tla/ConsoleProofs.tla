---------------------------- MODULE ConsoleProofs ----------------------------
(***************************************************************************)
(* Proofs about the console, for any number of tabs, calls, incidents and  *)
(* answers on their way: sessions, the page of one incident, the views     *)
(* that load rows, the poller of /health, the Live Feed. And what holds of *)
(* the parts alone, of the backend's and the console's, side by side.      *)
(***************************************************************************)
EXTENDS Parts, Reactions, PartsProofs, SumTheorems, TLAPS

-----------------------------------------------------------------------------
(* Sessions.                                                               *)

LEMMA UnsentIsAsk ==
  /\ Unsent \in AskState /\ Unsent.at = "idle" /\ Unsent.kind = "call"
  /\ Anonymous \in TabState
<1>1. /\ (CHOOSE t \in Tabs : TRUE) \in Tabs
      /\ (CHOOSE e \in Emails : TRUE) \in Emails
      /\ (CHOOSE p \in Passwords : TRUE) \in Passwords
  BY SessionsAssumption
<1>2. 0 \in Token
  BY SessionsAssumption DEF Token
<1> QED
  BY <1>1, <1>2 DEF Unsent, Anonymous, AskState, TabState, Kinds, NoToken

(* The tokens are numbered as they are signed. *)
Numbered == \E n \in 0..MaxTokens : DOMAIN signed = 1..n

(* What a tab has: a token that it has had and that was signed, and a      *)
(* password that was typed; none of them without a user.                   *)
EarnedTab(t) ==
  /\ tab[t].user # Nobody => /\ account[tab[t].user] = tab[t].password
                             /\ tab[t].token \in DOMAIN signed
                             /\ signed[tab[t].token] = tab[t].user
                             /\ tab[t].token \in held[t] /\ tab[t].password # Nobody
  /\ tab[t].user = Nobody => tab[t].token = NoToken
  /\ tab[t].ended = "refused" => held[t] \cap expired # {}
  /\ held[t] \subseteq DOMAIN signed

(* What a request has shown so far; one without a token shows nothing.     *)
AskIsEarned(r) ==
  /\ ask[r].kind = "call" /\ ask[r].at # "idle" =>
       ask[r].at # "stored" /\ ask[r].token \in held[ask[r].tab] \cup {NoToken}
  /\ ask[r].kind = "call" /\ ask[r].at = "401" => ask[r].token \in expired \cup {NoToken}
  /\ ask[r].kind # "call" /\ ask[r].at \in {"stored", "ok"} =>
       account[ask[r].email] = ask[r].password
  /\ ask[r].kind # "call" /\ ask[r].at = "ok" =>
       ask[r].token \in DOMAIN signed /\ signed[ask[r].token] = ask[r].email

SessionsInv ==
  /\ SessionsTypeOK /\ Numbered
  /\ \A r \in Asks : AskIsEarned(r)
  /\ \A t \in Tabs : EarnedTab(t)

LEMMA SessionsInitTypes == SessionsInit => SessionsTypeOK /\ Numbered
<1> SUFFICES ASSUME SessionsInit PROVE SessionsTypeOK /\ Numbered
  OBVIOUS
<1>1. DOMAIN signed = {} /\ 1..0 = {} /\ 0 \in 0..MaxTokens
  BY SessionsAssumption DEF SessionsInit
<1>2. ask \in [Asks -> AskState] /\ tab \in [Tabs -> TabState]
  BY UnsentIsAsk DEF SessionsInit
<1> QED
  BY <1>1, <1>2 DEF SessionsInit, SessionsTypeOK, Numbered

LEMMA Settling ==
  ASSUME ask \in [Asks -> AskState], NEW r \in Asks, NEW outcome, Settle(r, outcome)
  PROVE  /\ \A q \in Asks : /\ ask'[q].kind = ask[q].kind /\ ask'[q].tab = ask[q].tab
                            /\ ask'[q].email = ask[q].email /\ ask'[q].token = ask[q].token
                            /\ ask'[q].password = ask[q].password
         /\ ask'[r].at = outcome
         /\ \A q \in Asks : q # r => ask'[q] = ask[q]
         /\ outcome \in {"stored", "ok", "401", "error"} => ask' \in [Asks -> AskState]
<1>1. ask' = [ask EXCEPT ![r] = [ask[r] EXCEPT !.at = outcome]] /\ ask[r] \in AskState
  BY DEF Settle
<1>2. /\ ask'[r] = [ask[r] EXCEPT !.at = outcome]
      /\ \A q \in Asks : q # r => ask'[q] = ask[q]
  BY <1>1
<1>3. outcome \in {"stored", "ok", "401", "error"} => [ask[r] EXCEPT !.at = outcome] \in AskState
  BY <1>1 DEF AskState
<1>4. /\ ask'[r].kind = ask[r].kind /\ ask'[r].tab = ask[r].tab
      /\ ask'[r].email = ask[r].email /\ ask'[r].token = ask[r].token
      /\ ask'[r].password = ask[r].password /\ ask'[r].at = outcome
  BY <1>1, <1>2 DEF AskState
<1>5. outcome \in {"stored", "ok", "401", "error"} => ask' \in [Asks -> AskState]
  BY <1>1, <1>3
<1> QED
  BY <1>2, <1>4, <1>5

LEMMA Signing ==
  ASSUME SessionsTypeOK, Numbered, NEW r \in Asks, Sign(r)
  PROVE  \E k \in 1..MaxTokens :
           /\ k \notin DOMAIN signed /\ DOMAIN signed' = DOMAIN signed \cup {k}
           /\ DOMAIN signed' = 1..k
           /\ \A j \in DOMAIN signed : signed'[j] = signed[j]
           /\ signed'[k] = ask[r].email
           /\ ask' = [ask EXCEPT ![r].at = "ok", ![r].token = k]
<1>1. PICK n \in 0..MaxTokens : DOMAIN signed = 1..n
  BY DEF Numbered
<1>2. n \in Nat /\ MaxTokens \in Nat
  BY <1>1, SessionsAssumption
<1>3. Cardinality(1..n) = n
  BY <1>2, FS_Interval
<1>4. /\ n + 1 <= MaxTokens
      /\ signed' = [j \in 1..(n + 1) |-> IF j = n + 1 THEN ask[r].email ELSE signed[j]]
      /\ ask' = [ask EXCEPT ![r].at = "ok", ![r].token = n + 1]
  BY <1>1, <1>3 DEF Sign
<1>5. /\ n + 1 \in 1..MaxTokens /\ n + 1 \notin 1..n
      /\ 1..(n + 1) = (1..n) \cup {n + 1}
  BY <1>2, <1>4
<1> QED
  BY <1>1, <1>4, <1>5

LEMMA SessionsNextTypes ==
  SessionsInv /\ SessionsNext => SessionsTypeOK' /\ Numbered'
<1> SUFFICES ASSUME SessionsInv, SessionsNext PROVE SessionsTypeOK' /\ Numbered'
  OBVIOUS
<1>a. SessionsTypeOK /\ Numbered
  BY DEF SessionsInv
<1>0. /\ ask \in [Asks -> AskState] /\ tab \in [Tabs -> TabState]
      /\ held \in [Tabs -> SUBSET (1..MaxTokens)] /\ losses \in Nat
      /\ account \in [Emails -> Passwords \cup {Nobody}]
  BY <1>a DEF SessionsTypeOK
<1>1. ASSUME NEW r \in Asks, NEW t \in Tabs, CallApi(r, t) PROVE SessionsTypeOK' /\ Numbered'
  <2>1. [Unsent EXCEPT !.at = "asked", !.tab = t, !.token = tab[t].token] \in AskState
    BY <1>0, UnsentIsAsk DEF AskState, TabState
  <2>2. ask' \in [Asks -> AskState]
    BY <1>0, <1>1, <2>1 DEF CallApi
  <2> QED
    BY <1>a, <1>1, <2>2 DEF CallApi, SessionsTypeOK, Numbered
<1>2. ASSUME NEW r \in Asks, NEW t \in Tabs, NEW kind \in {"signup", "login"},
             NEW e \in Emails, NEW p \in Passwords, SubmitAuth(r, t, kind, e, p)
      PROVE  SessionsTypeOK' /\ Numbered'
  <2>1. 0 \in Token
    BY SessionsAssumption DEF Token
  <2>2. [at |-> "asked", kind |-> kind, tab |-> t, email |-> e, password |-> p,
         token |-> NoToken] \in AskState
    BY <2>1 DEF AskState, Kinds, NoToken
  <2>3. ask' \in [Asks -> AskState]
    BY <1>0, <1>2, <2>2 DEF SubmitAuth
  <2> QED
    BY <1>a, <1>2, <2>3 DEF SubmitAuth, SessionsTypeOK, Numbered
<1>3. ASSUME NEW r \in Asks, Create(r) PROVE SessionsTypeOK' /\ Numbered'
  <2>1. Settle(r, "stored") \/ Settle(r, "error")
    BY <1>3 DEF Create
  <2>2. ask' \in [Asks -> AskState]
    BY <1>0, <2>1, Settling
  <2>3. account' \in [Emails -> Passwords \cup {Nobody}]
    BY <1>0, <1>3 DEF Create, AskState
  <2>4. losses' \in Nat
    BY <1>0, <1>3 DEF Create, Lose
  <2> QED
    BY <1>a, <1>3, <2>2, <2>3, <2>4 DEF Create, SessionsTypeOK, Numbered
<1>4. ASSUME NEW r \in Asks, CheckPassword(r) \/ Verify(r) PROVE SessionsTypeOK' /\ Numbered'
  <2>1. \E outcome \in {"stored", "ok", "401"} : Settle(r, outcome)
    BY <1>4 DEF CheckPassword, Verify
  <2>2. ask' \in [Asks -> AskState]
    BY <1>0, <2>1, Settling
  <2> QED
    BY <1>a, <1>4, <2>2 DEF CheckPassword, Verify, SessionsTypeOK, Numbered
<1>5. ASSUME NEW r \in Asks, Sign(r) PROVE SessionsTypeOK' /\ Numbered'
  <2>1. PICK k \in 1..MaxTokens :
           /\ DOMAIN signed' = DOMAIN signed \cup {k} /\ DOMAIN signed' = 1..k
           /\ \A j \in DOMAIN signed : signed'[j] = signed[j]
           /\ signed'[k] = ask[r].email
           /\ ask' = [ask EXCEPT ![r].at = "ok", ![r].token = k]
    BY <1>a, <1>5, Signing
  <2>2. k \in Token /\ k \in 0..MaxTokens /\ ask[r].email \in Emails
    BY <1>0, SessionsAssumption DEF Token, AskState
  <2>3. ask' \in [Asks -> AskState]
    <3>1. [ask[r] EXCEPT !.at = "ok", !.token = k] \in AskState
      BY <1>0, <2>2 DEF AskState
    <3>2. ask' = [ask EXCEPT ![r] = [ask[r] EXCEPT !.at = "ok", !.token = k]]
      BY <1>0, <2>1
    <3> QED
      BY <1>0, <3>1, <3>2
  <2>4. Numbered'
    BY <2>1, <2>2 DEF Numbered
  <2>5. /\ DOMAIN signed' \in SUBSET (1..MaxTokens) /\ expired \subseteq DOMAIN signed'
        /\ \A j \in DOMAIN signed' : signed'[j] \in Emails
    BY <1>a, <2>1, <2>2 DEF SessionsTypeOK
  <2> QED
    BY <1>a, <1>5, <2>3, <2>4, <2>5 DEF Sign, SessionsTypeOK
<1>6. ASSUME NEW r \in Asks, Deliver(r) PROVE SessionsTypeOK' /\ Numbered'
  <2>1. ask' \in [Asks -> AskState]
    BY <1>0, <1>6, UnsentIsAsk DEF Deliver
  <2>2. ask[r] \in AskState /\ ask[r].tab \in Tabs
    BY <1>0 DEF AskState
  <2>3. tab' \in [Tabs -> TabState]
    <3>1. [user |-> ask[r].email, token |-> ask[r].token, password |-> ask[r].password,
           ended |-> "no"] \in TabState
      BY <2>2 DEF AskState, TabState
    <3>2. /\ [Anonymous EXCEPT !.ended = "refused"] \in TabState
          /\ [Anonymous EXCEPT !.ended = "stray"] \in TabState
      BY UnsentIsAsk DEF TabState
    <3> QED
      BY <1>0, <1>6, <2>2, <3>1, <3>2 DEF Deliver, AnswerOf
  <2>4. held' \in [Tabs -> SUBSET (1..MaxTokens)]
    <3>1. CASE held' = held
      BY <1>0, <3>1
    <3>2. CASE held' # held
      <4>1. /\ ask[r].kind # "call" /\ ask[r].at = "ok"
            /\ held' = [held EXCEPT ![ask[r].tab] = @ \cup {ask[r].token}]
        BY <1>6, <3>2 DEF Deliver, AnswerOf
      <4>2. ask[r].token \in DOMAIN signed
        BY <4>1 DEF SessionsInv, AskIsEarned
      <4>3. DOMAIN signed \subseteq 1..MaxTokens
        BY <1>a DEF SessionsTypeOK
      <4> QED
        BY <1>0, <2>2, <4>1, <4>2, <4>3
    <3> QED
      BY <3>1, <3>2
  <2> QED
    BY <1>a, <1>6, <2>1, <2>3, <2>4 DEF Deliver, SessionsTypeOK, Numbered
<1>7. ASSUME NEW r \in Asks, RequestFails(r) PROVE SessionsTypeOK' /\ Numbered'
  <2>1. ask' \in [Asks -> AskState] /\ losses' \in Nat
    BY <1>0, <1>7, UnsentIsAsk DEF RequestFails, Lose
  <2> QED
    BY <1>a, <1>7, <2>1 DEF RequestFails, SessionsTypeOK, Numbered
<1>8. ASSUME NEW k \in 1..MaxTokens, Expire(k) PROVE SessionsTypeOK' /\ Numbered'
  BY <1>a, <1>8 DEF Expire, SessionsTypeOK, Numbered
<1>9. ASSUME NEW t \in Tabs, LogoutByHand(t) PROVE SessionsTypeOK' /\ Numbered'
  <2>1. [Anonymous EXCEPT !.ended = "hand"] \in TabState
    BY UnsentIsAsk DEF TabState
  <2>2. tab' \in [Tabs -> TabState]
    BY <1>0, <1>9, <2>1 DEF LogoutByHand
  <2> QED
    BY <1>a, <1>9, <2>2 DEF LogoutByHand, SessionsTypeOK, Numbered
<1>10. ASSUME NEW t \in Tabs, CloseTab(t) PROVE SessionsTypeOK' /\ Numbered'
  <2>1. ask' \in [Asks -> AskState] /\ losses' \in Nat
    BY <1>0, <1>10, UnsentIsAsk DEF CloseTab, Lose
  <2>2. tab' \in [Tabs -> TabState] /\ held' \in [Tabs -> SUBSET (1..MaxTokens)]
    BY <1>0, <1>10, UnsentIsAsk DEF CloseTab
  <2> QED
    BY <1>a, <1>10, <2>1, <2>2 DEF CloseTab, SessionsTypeOK, Numbered
<1> QED
  BY <1>1, <1>2, <1>3, <1>4, <1>5, <1>6, <1>7, <1>8, <1>9, <1>10 DEF SessionsNext

LEMMA RequestSteps ==
  ASSUME SessionsInv, NEW r \in Asks,
         \/ CheckPassword(r) \/ Verify(r) \/ RequestFails(r)
  PROVE  /\ \A q \in Asks : AskIsEarned(q)'
         /\ \A t \in Tabs : EarnedTab(t)'
<1>0. /\ ask \in [Asks -> AskState] /\ \A q \in Asks : AskIsEarned(q)
      /\ \A t \in Tabs : EarnedTab(t)
  BY DEF SessionsInv, SessionsTypeOK
<1>1. UNCHANGED <<account, signed, expired, tab, held>>
  BY Zenon DEF CheckPassword, Verify, RequestFails
<1>2. \A t \in Tabs : EarnedTab(t)'
  BY <1>0, <1>1 DEF EarnedTab
<1>3. ASSUME NEW q \in Asks, ask'[q] = ask[q] PROVE AskIsEarned(q)'
  BY <1>0, <1>1, <1>3 DEF AskIsEarned
<1>4. CASE CheckPassword(r)
  <2>1. \A q \in Asks : q # r => ask'[q] = ask[q]
    BY <1>0, <1>4 DEF CheckPassword, Settle
  <2>2. AskIsEarned(r)'
    BY <1>0, <1>1, <1>4, Settling DEF CheckPassword, AskIsEarned
  <2> QED
    BY <1>2, <1>3, <2>1, <2>2
<1>5. CASE Verify(r)
  <2>1. \A q \in Asks : q # r => ask'[q] = ask[q]
    BY <1>0, <1>5 DEF Verify, Settle
  <2>2. ask[r].token \in DOMAIN signed \cup {NoToken}
    <3>1. ask[r].tab \in Tabs
      BY <1>0 DEF AskState
    <3> QED
      BY <1>0, <1>5, <3>1 DEF Verify, AskIsEarned, EarnedTab
  <2>3. AskIsEarned(r)'
    BY <1>0, <1>1, <1>5, <2>2, Settling DEF Verify, AskIsEarned
  <2> QED
    BY <1>2, <1>3, <2>1, <2>3
<1>6. CASE RequestFails(r)
  <2>1. ask'[r] = Unsent /\ \A q \in Asks : q # r => ask'[q] = ask[q]
    BY <1>0, <1>6 DEF RequestFails
  <2>2. AskIsEarned(r)'
    BY <2>1, UnsentIsAsk DEF AskIsEarned
  <2> QED
    BY <1>2, <1>3, <2>1, <2>2
<1> QED
  BY <1>2, <1>4, <1>5, <1>6

LEMMA CallAsks ==
  ASSUME ask \in [Asks -> AskState], NEW r \in Asks, NEW t \in Tabs, CallApi(r, t)
  PROVE  /\ UNCHANGED <<account, signed, expired, tab, held>>
         /\ ask'[r].at = "asked" /\ ask'[r].kind = "call" /\ ask'[r].tab = t
         /\ ask'[r].token = tab[t].token
         /\ \A q \in Asks : q # r => ask'[q] = ask[q]
<1> DEFINE new == [Unsent EXCEPT !.at = "asked", !.tab = t, !.token = tab[t].token]
<1>1. UNCHANGED <<account, signed, expired, tab, held>>
  BY Zenon DEF CallApi
<1>2. ask' = [ask EXCEPT ![r] = new]
  BY DEF CallApi
<1>3. new.at = "asked" /\ new.kind = "call" /\ new.tab = t /\ new.token = tab[t].token
  BY UnsentIsAsk DEF AskState
<1> HIDE DEF new
<1>4. ask'[r] = new /\ \A q \in Asks : q # r => ask'[q] = ask[q]
  BY <1>2
<1> QED
  BY <1>1, <1>3, <1>4

LEMMA CallSteps ==
  ASSUME SessionsInv, NEW r \in Asks, NEW t \in Tabs, CallApi(r, t)
  PROVE  /\ \A q \in Asks : AskIsEarned(q)'
         /\ \A u \in Tabs : EarnedTab(u)'
<1>0. /\ ask \in [Asks -> AskState] /\ \A q \in Asks : AskIsEarned(q)
      /\ \A u \in Tabs : EarnedTab(u)
  BY DEF SessionsInv, SessionsTypeOK
<1>1. /\ UNCHANGED <<account, signed, expired, tab, held>>
      /\ ask'[r].at = "asked" /\ ask'[r].kind = "call" /\ ask'[r].tab = t
      /\ ask'[r].token = tab[t].token
      /\ \A q \in Asks : q # r => ask'[q] = ask[q]
  BY <1>0, CallAsks
<1>2. \A u \in Tabs : EarnedTab(u)'
  BY <1>0, <1>1 DEF EarnedTab
<1>3. ASSUME NEW q \in Asks, q # r PROVE AskIsEarned(q)'
  BY <1>0, <1>1, <1>3 DEF AskIsEarned
<1>4. tab[t].token \in held[t] \cup {NoToken}
  BY <1>0 DEF EarnedTab
<1>5. AskIsEarned(r)'
  BY <1>1, <1>4 DEF AskIsEarned
<1> QED
  BY <1>2, <1>3, <1>5

LEMMA SubmitSteps ==
  ASSUME SessionsInv, NEW r \in Asks, NEW t \in Tabs, NEW kind \in {"signup", "login"},
         NEW e \in Emails, NEW p \in Passwords, SubmitAuth(r, t, kind, e, p)
  PROVE  /\ \A q \in Asks : AskIsEarned(q)'
         /\ \A u \in Tabs : EarnedTab(u)'
<1>0. /\ ask \in [Asks -> AskState] /\ \A q \in Asks : AskIsEarned(q)
      /\ \A u \in Tabs : EarnedTab(u)
  BY DEF SessionsInv, SessionsTypeOK
<1>1. UNCHANGED <<account, signed, expired, tab, held>>
  BY Zenon DEF SubmitAuth
<1>2. \A u \in Tabs : EarnedTab(u)'
  BY <1>0, <1>1 DEF EarnedTab
<1>3. ASSUME NEW q \in Asks, ask'[q] = ask[q] PROVE AskIsEarned(q)'
  BY <1>0, <1>1, <1>3 DEF AskIsEarned
<1>4. /\ ask'[r].at = "asked" /\ ask'[r].kind = kind
      /\ \A q \in Asks : q # r => ask'[q] = ask[q]
  BY <1>0 DEF SubmitAuth
<1>5. AskIsEarned(r)'
  BY <1>4 DEF AskIsEarned
<1> QED
  BY <1>2, <1>3, <1>4, <1>5

LEMMA AccountSteps ==
  ASSUME SessionsInv, NEW r \in Asks, Create(r) \/ Sign(r)
  PROVE  /\ \A q \in Asks : AskIsEarned(q)'
         /\ \A t \in Tabs : EarnedTab(t)'
<1>0. /\ ask \in [Asks -> AskState] /\ \A q \in Asks : AskIsEarned(q)
      /\ \A t \in Tabs : EarnedTab(t)
      /\ account \in [Emails -> Passwords \cup {Nobody}] /\ tab \in [Tabs -> TabState]
      /\ SessionsTypeOK /\ Numbered
  BY DEF SessionsInv, SessionsTypeOK
<1>1. CASE Create(r)
  <2>1. UNCHANGED <<signed, expired, tab, held>>
    BY <1>1 DEF Create
  <2>2. ask[r].kind = "signup" /\ ask[r].at = "asked" /\ ask[r].email \in Emails
    BY <1>0, <1>1 DEF Create, AskState
  <2>3. \A q \in Asks : /\ ask'[q].kind = ask[q].kind /\ ask'[q].email = ask[q].email
                        /\ ask'[q].password = ask[q].password
    BY <1>0, <1>1, Settling DEF Create
  <2>4. \A q \in Asks : q # r => ask'[q] = ask[q]
    BY <1>0, <1>1, Settling DEF Create
  <2>5. \A e \in Emails : account[e] # Nobody => account'[e] = account[e]
    BY <1>0, <1>1 DEF Create, Free
  <2>6. ASSUME NEW q \in Asks, q # r PROVE AskIsEarned(q)'
    <3>1. ask[q].email \in Emails /\ ask[q].password # Nobody
      BY <1>0, SessionsAssumption DEF AskState
    <3> QED
      BY <1>0, <2>1, <2>4, <2>5, <2>6, <3>1 DEF AskIsEarned
  <2>7. AskIsEarned(r)'
    <3>1. ask'[r].at \in {"stored", "error"} /\ ask'[r].kind = "signup"
      BY <1>0, <1>1, <2>2, <2>3, Settling DEF Create
    <3>2. ask'[r].at = "stored" => account'[ask[r].email] = ask[r].password
      BY <1>0, <1>1, <2>2, Settling DEF Create
    <3> QED
      BY <2>3, <3>1, <3>2 DEF AskIsEarned
  <2>8. ASSUME NEW t \in Tabs PROVE EarnedTab(t)'
    <3>1. tab[t].user \in Emails \cup {Nobody}
          /\ (tab[t].password = Nobody \/ tab[t].password \in Passwords)
      BY <1>0 DEF TabState
    <3>2. tab[t].user # Nobody => account'[tab[t].user] = tab[t].password
      BY <1>0, <2>5, <3>1 DEF EarnedTab
    <3> QED
      BY <1>0, <2>1, <3>2 DEF EarnedTab
  <2> QED
    BY <2>6, <2>7, <2>8
<1>2. CASE Sign(r)
  <2>1. UNCHANGED <<account, expired, tab, held>> /\ ask[r].at = "stored"
    BY <1>2 DEF Sign
  <2>2. PICK k \in 1..MaxTokens :
           /\ k \notin DOMAIN signed /\ DOMAIN signed' = DOMAIN signed \cup {k}
           /\ \A j \in DOMAIN signed : signed'[j] = signed[j]
           /\ signed'[k] = ask[r].email
           /\ ask' = [ask EXCEPT ![r].at = "ok", ![r].token = k]
    BY <1>0, <1>2, Signing
  <2>3. ASSUME NEW q \in Asks, q # r PROVE AskIsEarned(q)'
    <3>1. ask'[q] = ask[q]
      BY <1>0, <2>2, <2>3
    <3> QED
      BY <1>0, <2>1, <2>2, <3>1 DEF AskIsEarned
  <2>4. AskIsEarned(r)'
    <3>1. /\ ask'[r].at = "ok" /\ ask'[r].token = k /\ ask'[r].kind = ask[r].kind
          /\ ask'[r].email = ask[r].email /\ ask'[r].password = ask[r].password
      BY <1>0, <2>2 DEF AskState
    <3> QED
      BY <1>0, <2>1, <2>2, <3>1 DEF AskIsEarned
  <2>5. ASSUME NEW t \in Tabs PROVE EarnedTab(t)'
    BY <1>0, <2>1, <2>2 DEF EarnedTab
  <2> QED
    BY <2>3, <2>4, <2>5
<1> QED
  BY <1>1, <1>2

LEMMA TabSteps ==
  ASSUME SessionsInv,
         \/ \E r \in Asks : Deliver(r)
         \/ \E k \in 1..MaxTokens : Expire(k)
         \/ \E t \in Tabs : LogoutByHand(t) \/ CloseTab(t)
  PROVE  /\ \A q \in Asks : AskIsEarned(q)'
         /\ \A t \in Tabs : EarnedTab(t)'
<1>0. /\ ask \in [Asks -> AskState] /\ \A q \in Asks : AskIsEarned(q)
      /\ \A t \in Tabs : EarnedTab(t)
      /\ tab \in [Tabs -> TabState] /\ held \in [Tabs -> SUBSET (1..MaxTokens)]
  BY DEF SessionsInv, SessionsTypeOK
<1>1. ASSUME NEW r \in Asks, Deliver(r)
      PROVE  /\ \A q \in Asks : AskIsEarned(q)'
             /\ \A t \in Tabs : EarnedTab(t)'
  <2>1. UNCHANGED <<account, signed, expired>> /\ ask[r].tab \in Tabs
    BY <1>0, <1>1 DEF Deliver, AskState
  <2>2. \A t \in Tabs : held[t] \subseteq held'[t]
    BY <1>0, <1>1, <2>1 DEF Deliver, AnswerOf
  <2>3. ASSUME NEW q \in Asks PROVE AskIsEarned(q)'
    <3>1. ask'[q] = IF q = r THEN Unsent ELSE ask[q]
      BY <1>0, <1>1 DEF Deliver
    <3>2. CASE q = r
      BY <3>1, <3>2, UnsentIsAsk DEF AskIsEarned
    <3>3. CASE q # r
      <4>1. ask[q].tab \in Tabs
        BY <1>0 DEF AskState
      <4> QED
        BY <1>0, <2>1, <2>2, <3>1, <3>3, <4>1 DEF AskIsEarned
    <3> QED
      BY <3>2, <3>3
  <2>4. ASSUME NEW t \in Tabs PROVE EarnedTab(t)'
    <3>1. CASE tab'[t] = tab[t] /\ held'[t] = held[t]
      BY <1>0, <2>1, <3>1 DEF EarnedTab
    <3>2. CASE /\ ask[r].kind # "call" /\ ask[r].at = "ok" /\ t = ask[r].tab
               /\ tab' = [tab EXCEPT ![t] = [user |-> ask[r].email, token |-> ask[r].token,
                                             password |-> ask[r].password, ended |-> "no"]]
               /\ held' = [held EXCEPT ![t] = @ \cup {ask[r].token}]
      <4>1. /\ tab'[t] = [user |-> ask[r].email, token |-> ask[r].token,
                          password |-> ask[r].password, ended |-> "no"]
            /\ held'[t] = held[t] \cup {ask[r].token}
        BY <1>0, <3>2
      <4>2. /\ account[ask[r].email] = ask[r].password /\ ask[r].token \in DOMAIN signed
            /\ signed[ask[r].token] = ask[r].email
        BY <1>0, <3>2 DEF AskIsEarned
      <4>3. ask[r].password # Nobody /\ ask[r].email # Nobody
        BY <1>0, SessionsAssumption DEF AskState
      <4>4. /\ tab'[t].user # Nobody /\ tab'[t].user = ask[r].email /\ tab'[t].ended = "no"
            /\ tab'[t].token = ask[r].token /\ tab'[t].password = ask[r].password
        BY <4>1, <4>3
      <4>5. held[t] \subseteq DOMAIN signed
        BY <1>0 DEF EarnedTab
      <4> QED
        BY <2>1, <4>1, <4>2, <4>3, <4>4, <4>5 DEF EarnedTab
    <3>3. CASE /\ ask[r].kind = "call" /\ ask[r].at = "401" /\ t = ask[r].tab
               /\ tab' = [tab EXCEPT ![t] =
                            [Anonymous EXCEPT !.ended = IF ask[r].token = NoToken THEN "stray"
                                                                                  ELSE "refused"]]
               /\ held' = held
      <4>1. /\ tab'[t].user = Nobody /\ tab'[t].token = NoToken /\ held'[t] = held[t]
            /\ tab'[t].ended = IF ask[r].token = NoToken THEN "stray" ELSE "refused"
        BY <1>0, <3>3 DEF Anonymous
      <4>2. ask[r].token # NoToken => ask[r].token \in held[t] \cap expired
        BY <1>0, <3>3 DEF AskIsEarned
      <4> QED
        BY <1>0, <2>1, <4>1, <4>2 DEF EarnedTab
    <3> QED
      BY <1>0, <1>1, <2>1, <3>1, <3>2, <3>3 DEF Deliver, AnswerOf, Exempt
  <2> QED
    BY <2>3, <2>4
<1>2. ASSUME NEW k \in 1..MaxTokens, Expire(k)
      PROVE  /\ \A q \in Asks : AskIsEarned(q)'
             /\ \A t \in Tabs : EarnedTab(t)'
  BY <1>0, <1>2 DEF Expire, AskIsEarned, EarnedTab
<1>3. ASSUME NEW t \in Tabs, LogoutByHand(t)
      PROVE  /\ \A q \in Asks : AskIsEarned(q)'
             /\ \A u \in Tabs : EarnedTab(u)'
  <2>1. UNCHANGED <<account, signed, expired, ask, held>>
    BY <1>3 DEF LogoutByHand
  <2>2. /\ tab'[t] = [Anonymous EXCEPT !.ended = "hand"]
        /\ \A u \in Tabs : u # t => tab'[u] = tab[u]
    BY <1>0, <1>3 DEF LogoutByHand
  <2>3. tab'[t].user = Nobody /\ tab'[t].token = NoToken /\ tab'[t].ended = "hand"
    BY <2>2 DEF Anonymous
  <2>4. \A q \in Asks : AskIsEarned(q)'
    BY <1>0, <2>1 DEF AskIsEarned
  <2>5. EarnedTab(t)'
    BY <1>0, <2>1, <2>3 DEF EarnedTab
  <2>6. ASSUME NEW u \in Tabs, u # t PROVE EarnedTab(u)'
    BY <1>0, <2>1, <2>2, <2>6 DEF EarnedTab
  <2> QED
    BY <2>4, <2>5, <2>6
<1>4. ASSUME NEW t \in Tabs, CloseTab(t)
      PROVE  /\ \A q \in Asks : AskIsEarned(q)'
             /\ \A u \in Tabs : EarnedTab(u)'
  <2>1. UNCHANGED <<account, signed, expired>>
    BY <1>4 DEF CloseTab
  <2>2. /\ tab'[t] = Anonymous /\ held'[t] = {}
        /\ \A u \in Tabs : u # t => tab'[u] = tab[u] /\ held'[u] = held[u]
        /\ \A q \in Asks : ask'[q] = IF ask[q].tab = t THEN Unsent ELSE ask[q]
    BY <1>0, <1>4 DEF CloseTab
  <2>3. ASSUME NEW q \in Asks PROVE AskIsEarned(q)'
    <3>1. CASE ask[q].tab = t
      BY <2>2, <3>1, UnsentIsAsk DEF AskIsEarned
    <3>2. CASE ask[q].tab # t
      <4>1. ask[q].tab \in Tabs
        BY <1>0 DEF AskState
      <4> QED
        BY <1>0, <2>1, <2>2, <3>2, <4>1 DEF AskIsEarned
    <3> QED
      BY <3>1, <3>2
  <2>4. ASSUME NEW u \in Tabs PROVE EarnedTab(u)'
    <3>1. tab'[t].user = Nobody /\ tab'[t].token = NoToken /\ tab'[t].ended = "no"
      BY <2>2 DEF Anonymous
    <3> QED
      BY <1>0, <2>1, <2>2, <3>1 DEF EarnedTab
  <2> QED
    BY <2>3, <2>4
<1> QED
  BY <1>1, <1>2, <1>3, <1>4

LEMMA SessionsInductive == SessionsSpec => []SessionsInv
<1>1. SessionsInit => SessionsInv
  <2> SUFFICES ASSUME SessionsInit PROVE SessionsInv
    OBVIOUS
  <2>1. \A r \in Asks : AskIsEarned(r)
    BY UnsentIsAsk DEF SessionsInit, AskIsEarned
  <2>2. \A t \in Tabs : EarnedTab(t)
    BY DEF SessionsInit, EarnedTab, Anonymous
  <2> QED
    BY <2>1, <2>2, SessionsInitTypes DEF SessionsInv
<1>2. SessionsInv /\ SessionsNext => SessionsInv'
  BY SessionsNextTypes, RequestSteps, CallSteps, SubmitSteps, AccountSteps, TabSteps
     DEF SessionsNext, SessionsInv
<1>3. SessionsInv /\ UNCHANGED sessionsVars => SessionsInv'
  BY DEF sessionsVars, SessionsInv, SessionsTypeOK, Numbered, EarnedTab, AskIsEarned
<1> QED
  BY <1>1, <1>2, <1>3, PTL DEF SessionsSpec

(* Requests without a token. Their tab had a session before the present    *)
(* one, whose token is another: tokens are signed once and delivered once. *)

Strayed(r, t) ==
  ask[r].kind = "call" /\ ask[r].at # "idle" /\ ask[r].token = NoToken /\ ask[r].tab = t

HadOneBefore(t) ==
  /\ held[t] # {}
  /\ tab[t].user # Nobody => \E k \in held[t] : k # tab[t].token

Granted(r) == ask[r].kind # "call" /\ ask[r].at = "ok"

NewToken(r) ==
  /\ \A t \in Tabs : ask[r].token \notin held[t]
  /\ \A q \in Asks : q # r /\ Granted(q) => ask[q].token # ask[r].token

HadTwo(t) == \E j, k \in held[t] : j # k

StrayInv ==
  /\ \A r \in Asks, t \in Tabs : Strayed(r, t) => HadOneBefore(t)
  /\ \A r \in Asks : Granted(r) => NewToken(r)
  /\ \A t \in Tabs : tab[t].ended = "stray" => HadTwo(t)

(* A step that changes one request and no tab. *)
LEMMA OneAskMoves ==
  ASSUME StrayInv, UNCHANGED <<tab, held>>, NEW r \in Asks,
         \A q \in Asks : q # r => ask'[q] = ask[q],
         \A t \in Tabs : Strayed(r, t)' => HadOneBefore(t),
         Granted(r)' => /\ \A t \in Tabs : ask'[r].token \notin held[t]
                        /\ \A q \in Asks : q # r /\ Granted(q) => ask[q].token # ask'[r].token
  PROVE  StrayInv'
<1>1. ASSUME NEW t \in Tabs PROVE HadOneBefore(t)' <=> HadOneBefore(t)
  BY DEF HadOneBefore
<1>2. ASSUME NEW q \in Asks, NEW t \in Tabs, Strayed(q, t)' PROVE HadOneBefore(t)'
  <2>1. CASE q = r
    BY <1>1, <1>2, <2>1
  <2>2. CASE q # r
    BY <1>1, <1>2, <2>2 DEF StrayInv, Strayed
  <2> QED
    BY <2>1, <2>2
<1>3. ASSUME NEW q \in Asks, Granted(q)' PROVE NewToken(q)'
  <2>1. ASSUME NEW p \in Asks, p # r PROVE ask'[p] = ask[p] /\ (Granted(p)' <=> Granted(p))
    BY <2>1 DEF Granted
  <2>2. CASE q = r
    BY <1>3, <2>1, <2>2 DEF NewToken
  <2>3. CASE q # r
    <3>1. Granted(q) /\ NewToken(q) /\ ask'[q] = ask[q]
      BY <1>3, <2>1, <2>3 DEF StrayInv
    <3>2. ASSUME NEW p \in Asks, p # q, Granted(p)' PROVE ask'[p].token # ask'[q].token
      <4>1. CASE p = r
        BY <2>3, <3>1, <3>2, <4>1
      <4>2. CASE p # r
        BY <2>1, <3>1, <3>2, <4>2 DEF NewToken
      <4> QED
        BY <4>1, <4>2
    <3> QED
      BY <3>1, <3>2 DEF NewToken
  <2> QED
    BY <2>2, <2>3
<1>4. \A t \in Tabs : tab'[t].ended = "stray" => HadTwo(t)'
  BY DEF StrayInv, HadTwo
<1> QED
  BY <1>2, <1>3, <1>4 DEF StrayInv

(* A step after which the request neither lacks a token nor grants one. *)
LEMMA OneAskSettles ==
  ASSUME StrayInv, UNCHANGED <<tab, held>>, NEW r \in Asks,
         \A q \in Asks : q # r => ask'[q] = ask[q],
         \A t \in Tabs : Strayed(r, t)' => Strayed(r, t), ~ Granted(r)'
  PROVE  StrayInv'
<1>1. \A t \in Tabs : Strayed(r, t)' => HadOneBefore(t)
  BY DEF StrayInv
<1> QED
  BY <1>1, OneAskMoves

LEMMA ServerStrays ==
  ASSUME StrayInv, SessionsInv, NEW r \in Asks, Create(r) \/ CheckPassword(r) \/ Verify(r)
  PROVE  StrayInv'
<1>0. ask \in [Asks -> AskState]
  BY DEF SessionsInv, SessionsTypeOK
<1>1. UNCHANGED <<tab, held>>
  BY DEF Create, CheckPassword, Verify
<1>2. /\ ask'[r].kind = ask[r].kind /\ ask'[r].token = ask[r].token
      /\ ask'[r].tab = ask[r].tab /\ ask[r].at = "asked"
      /\ \A q \in Asks : q # r => ask'[q] = ask[q]
  BY <1>0, Settling DEF Create, CheckPassword, Verify
<1>3. ask[r].kind # "call" => ask'[r].at # "ok"
  BY <1>0, Settling DEF Create, CheckPassword, Verify
<1>4. (\A t \in Tabs : Strayed(r, t)' => Strayed(r, t)) /\ ~ Granted(r)'
  BY <1>2, <1>3 DEF Strayed, Granted
<1> QED
  BY <1>1, <1>2, <1>4, OneAskSettles

LEMMA FailureStrays ==
  ASSUME StrayInv, SessionsInv, NEW r \in Asks, RequestFails(r)
  PROVE  StrayInv'
<1>0. ask \in [Asks -> AskState]
  BY DEF SessionsInv, SessionsTypeOK
<1>1. /\ UNCHANGED <<tab, held>> /\ ask'[r] = Unsent
      /\ \A q \in Asks : q # r => ask'[q] = ask[q]
  BY <1>0 DEF RequestFails
<1>2. (\A t \in Tabs : ~ Strayed(r, t)') /\ ~ Granted(r)'
  BY <1>1, UnsentIsAsk DEF Strayed, Granted
<1> QED
  BY <1>1, <1>2, OneAskSettles

LEMMA SubmitStrays ==
  ASSUME StrayInv, SessionsInv, NEW r \in Asks, NEW t \in Tabs, NEW kind \in {"signup", "login"},
         NEW e \in Emails, NEW p \in Passwords, SubmitAuth(r, t, kind, e, p)
  PROVE  StrayInv'
<1>0. ask \in [Asks -> AskState]
  BY DEF SessionsInv, SessionsTypeOK
<1>1. /\ UNCHANGED <<tab, held>> /\ ask'[r].kind = kind /\ ask'[r].at = "asked"
      /\ \A q \in Asks : q # r => ask'[q] = ask[q]
  BY <1>0 DEF SubmitAuth
<1>2. (\A u \in Tabs : ~ Strayed(r, u)') /\ ~ Granted(r)'
  BY <1>1 DEF Strayed, Granted
<1> QED
  BY <1>1, <1>2, OneAskSettles

LEMMA CallStrays ==
  ASSUME StrayInv, SessionsInv, NEW r \in Asks, NEW t \in Tabs, CallApi(r, t)
  PROVE  StrayInv'
<1>0. /\ ask \in [Asks -> AskState] /\ EarnedTab(t)
      /\ DOMAIN signed \subseteq 1..MaxTokens
  BY DEF SessionsInv, SessionsTypeOK
<1>1. /\ UNCHANGED <<tab, held>>
      /\ ask'[r].at = "asked" /\ ask'[r].kind = "call" /\ ask'[r].tab = t
      /\ ask'[r].token = tab[t].token
      /\ \A q \in Asks : q # r => ask'[q] = ask[q]
  BY <1>0, CallAsks
<1>2. ASSUME tab[t].token = NoToken PROVE HadOneBefore(t)
  <2>1. NoToken \notin DOMAIN signed
    BY <1>0 DEF NoToken
  <2>2. tab[t].user = Nobody
    BY <1>0, <1>2, <2>1 DEF EarnedTab
  <2> QED
    BY <2>2 DEF CallApi, HadOneBefore
<1>3. \A u \in Tabs : Strayed(r, u)' => HadOneBefore(u)
  BY <1>1, <1>2 DEF Strayed
<1>4. ~ Granted(r)'
  BY <1>1 DEF Granted
<1> QED
  BY <1>1, <1>3, <1>4, OneAskMoves

LEMMA SignStrays ==
  ASSUME StrayInv, SessionsInv, NEW r \in Asks, Sign(r)
  PROVE  StrayInv'
<1>0. /\ ask \in [Asks -> AskState] /\ \A q \in Asks : AskIsEarned(q)
      /\ \A t \in Tabs : EarnedTab(t)
      /\ SessionsTypeOK /\ Numbered
  BY DEF SessionsInv, SessionsTypeOK
<1>1. UNCHANGED <<tab, held>> /\ ask[r].at = "stored"
  BY DEF Sign
<1>2. PICK k \in 1..MaxTokens :
         /\ k \notin DOMAIN signed
         /\ ask' = [ask EXCEPT ![r].at = "ok", ![r].token = k]
  BY <1>0, Signing
<1>3. /\ ask'[r].token = k /\ ask'[r].kind = ask[r].kind
      /\ \A q \in Asks : q # r => ask'[q] = ask[q]
  BY <1>0, <1>2 DEF AskState
<1>4. ask[r].kind # "call"
  BY <1>0, <1>1 DEF AskIsEarned
<1>5. \A t \in Tabs : k \notin held[t]
  BY <1>0, <1>2 DEF EarnedTab
<1>6. \A q \in Asks : Granted(q) => ask[q].token # k
  BY <1>0, <1>2 DEF AskIsEarned, Granted
<1>7. \A t \in Tabs : ~ Strayed(r, t)'
  BY <1>3, <1>4 DEF Strayed
<1> QED
  BY <1>1, <1>3, <1>5, <1>6, <1>7, OneAskMoves

LEMMA DeliverStrays ==
  ASSUME StrayInv, SessionsInv, NEW r \in Asks, Deliver(r)
  PROVE  StrayInv'
<1>0. /\ ask \in [Asks -> AskState] /\ tab \in [Tabs -> TabState]
      /\ held \in [Tabs -> SUBSET (1..MaxTokens)] /\ ask[r].tab \in Tabs
  BY DEF SessionsInv, SessionsTypeOK, AskState
<1>1. ask'[r] = Unsent /\ \A q \in Asks : q # r => ask'[q] = ask[q]
  BY <1>0 DEF Deliver
<1>2. (\A t \in Tabs : ~ Strayed(r, t)') /\ ~ Granted(r)'
  BY <1>1, UnsentIsAsk DEF Strayed, Granted
<1>3. ASSUME NEW q \in Asks, q # r
      PROVE  /\ Granted(q)' <=> Granted(q)
             /\ \A t \in Tabs : Strayed(q, t)' <=> Strayed(q, t)
  BY <1>1, <1>3 DEF Granted, Strayed
<1>4. CASE UNCHANGED <<tab, held>>
  BY <1>1, <1>2, <1>4, OneAskSettles
<1>5. ASSUME /\ Granted(r)
             /\ tab' = [tab EXCEPT ![ask[r].tab] =
                          [user |-> ask[r].email, token |-> ask[r].token,
                           password |-> ask[r].password, ended |-> "no"]]
             /\ held' = [held EXCEPT ![ask[r].tab] = @ \cup {ask[r].token}]
      PROVE  StrayInv'
  <2>0. PICK k0 : k0 = ask[r].token
    OBVIOUS
  <2>1. PICK t0 \in Tabs : t0 = ask[r].tab /\ k0 = ask[r].token
    BY <1>0, <2>0
  <2>2. /\ tab'[t0].token = k0 /\ tab'[t0].ended = "no" /\ held'[t0] = held[t0] \cup {k0}
        /\ \A t \in Tabs : t # t0 => tab'[t] = tab[t] /\ held'[t] = held[t]
    BY <1>0, <1>5, <2>1
  <2>3. /\ \A t \in Tabs : k0 \notin held[t]
        /\ \A q \in Asks : q # r /\ Granted(q) => ask[q].token # k0
    BY <1>5, <2>1 DEF StrayInv, NewToken
  <2>4. ASSUME NEW t \in Tabs, HadOneBefore(t) PROVE HadOneBefore(t)'
    <3>1. CASE t = t0
      BY <2>2, <2>3, <2>4, <3>1 DEF HadOneBefore
    <3>2. CASE t # t0
      BY <2>2, <2>4, <3>2 DEF HadOneBefore
    <3> QED
      BY <3>1, <3>2
  <2>5. ASSUME NEW q \in Asks, NEW t \in Tabs, Strayed(q, t)' PROVE HadOneBefore(t)'
    BY <1>2, <1>3, <2>4, <2>5 DEF StrayInv
  <2>6. ASSUME NEW q \in Asks, Granted(q)' PROVE NewToken(q)'
    <3>1. q # r /\ ask'[q] = ask[q] /\ Granted(q) /\ NewToken(q) /\ ask[q].token # k0
      BY <1>1, <1>2, <1>3, <2>3, <2>6 DEF StrayInv
    <3>2. ASSUME NEW t \in Tabs PROVE ask'[q].token \notin held'[t]
      BY <2>2, <3>1 DEF NewToken
    <3>3. ASSUME NEW p \in Asks, p # q, Granted(p)' PROVE ask'[p].token # ask'[q].token
      BY <1>1, <1>2, <1>3, <3>1, <3>3 DEF NewToken
    <3> QED
      BY <3>2, <3>3 DEF NewToken
  <2>7. ASSUME NEW t \in Tabs, tab'[t].ended = "stray" PROVE HadTwo(t)'
    <3>1. t # t0
      BY <2>2, <2>7
    <3> QED
      BY <2>2, <2>7, <3>1 DEF StrayInv, HadTwo
  <2> QED
    BY <2>5, <2>6, <2>7 DEF StrayInv
<1>6. ASSUME /\ ask[r].kind = "call" /\ ask[r].at = "401" /\ tab[ask[r].tab].user # Nobody
             /\ tab' = [tab EXCEPT ![ask[r].tab] =
                          [Anonymous EXCEPT !.ended = IF ask[r].token = NoToken THEN "stray"
                                                                                ELSE "refused"]]
             /\ held' = held
      PROVE  StrayInv'
  <2>1. PICK t0 \in Tabs : t0 = ask[r].tab
    BY <1>0
  <2>2. /\ tab'[t0].user = Nobody
        /\ tab'[t0].ended = IF ask[r].token = NoToken THEN "stray" ELSE "refused"
        /\ \A t \in Tabs : t # t0 => tab'[t] = tab[t]
    BY <1>0, <1>6, <2>1 DEF Anonymous
  <2>3. ask[r].token = NoToken => HadOneBefore(t0)
    BY <1>6, <2>1 DEF StrayInv, Strayed
  <2>4. tab[t0].user # Nobody /\ tab[t0].token \in held[t0]
    BY <1>6, <2>1 DEF SessionsInv, EarnedTab
  <2>5. ASSUME NEW t \in Tabs, HadOneBefore(t) PROVE HadOneBefore(t)'
    BY <1>6, <2>2, <2>5 DEF HadOneBefore
  <2>6. ASSUME NEW q \in Asks, NEW t \in Tabs, Strayed(q, t)' PROVE HadOneBefore(t)'
    BY <1>2, <1>3, <2>5, <2>6 DEF StrayInv
  <2>7. ASSUME NEW q \in Asks, Granted(q)' PROVE NewToken(q)'
    <3>1. q # r /\ ask'[q] = ask[q] /\ Granted(q) /\ NewToken(q)
      BY <1>1, <1>2, <1>3, <2>7 DEF StrayInv
    <3>2. ASSUME NEW p \in Asks, p # q, Granted(p)' PROVE ask'[p].token # ask'[q].token
      BY <1>1, <1>2, <1>3, <3>1, <3>2 DEF NewToken
    <3> QED
      BY <1>6, <3>1, <3>2 DEF NewToken
  <2>8. ASSUME NEW t \in Tabs, tab'[t].ended = "stray" PROVE HadTwo(t)'
    <3>1. CASE t = t0
      BY <1>6, <2>2, <2>3, <2>4, <2>8, <3>1 DEF HadOneBefore, HadTwo
    <3>2. CASE t # t0
      BY <1>6, <2>2, <2>8, <3>2 DEF StrayInv, HadTwo
    <3> QED
      BY <3>1, <3>2
  <2> QED
    BY <2>6, <2>7, <2>8 DEF StrayInv
<1> QED
  BY <1>4, <1>5, <1>6 DEF Deliver, AnswerOf, Exempt, Granted

LEMMA OtherStrays ==
  ASSUME StrayInv, SessionsInv,
         \/ \E k \in 1..MaxTokens : Expire(k)
         \/ \E t \in Tabs : LogoutByHand(t) \/ CloseTab(t)
         \/ UNCHANGED sessionsVars
  PROVE  StrayInv'
<1>0. /\ ask \in [Asks -> AskState] /\ tab \in [Tabs -> TabState]
      /\ held \in [Tabs -> SUBSET (1..MaxTokens)]
  BY DEF SessionsInv, SessionsTypeOK
<1>1. CASE UNCHANGED <<tab, ask, held>>
  BY <1>1 DEF StrayInv, Strayed, HadOneBefore, Granted, NewToken, HadTwo
<1>2. ASSUME NEW t \in Tabs, LogoutByHand(t) PROVE StrayInv'
  <2>1. /\ tab'[t] = [Anonymous EXCEPT !.ended = "hand"] /\ UNCHANGED <<ask, held>>
        /\ \A u \in Tabs : u # t => tab'[u] = tab[u]
    BY <1>0, <1>2 DEF LogoutByHand
  <2>2. tab'[t].user = Nobody /\ tab'[t].ended = "hand"
    BY <2>1 DEF Anonymous
  <2>3. ASSUME NEW q \in Asks, NEW u \in Tabs, Strayed(q, u)' PROVE HadOneBefore(u)'
    <3>1. Strayed(q, u)
      BY <2>1, <2>3 DEF Strayed
    <3>2. HadOneBefore(u)
      BY <3>1 DEF StrayInv
    <3> QED
      BY <2>1, <2>2, <3>2 DEF HadOneBefore
  <2>4. ASSUME NEW q \in Asks, Granted(q)' PROVE NewToken(q)'
    BY <2>1, <2>4 DEF StrayInv, Granted, NewToken
  <2>5. ASSUME NEW u \in Tabs, tab'[u].ended = "stray" PROVE HadTwo(u)'
    BY <2>1, <2>2, <2>5 DEF StrayInv, HadTwo
  <2> QED
    BY <2>3, <2>4, <2>5 DEF StrayInv
<1>3. ASSUME NEW t \in Tabs, CloseTab(t) PROVE StrayInv'
  <2>1. /\ tab'[t] = Anonymous /\ held'[t] = {}
        /\ \A u \in Tabs : u # t => tab'[u] = tab[u] /\ held'[u] = held[u]
        /\ \A q \in Asks : ask'[q] = IF ask[q].tab = t THEN Unsent ELSE ask[q]
    BY <1>0, <1>3 DEF CloseTab
  <2>2. tab'[t].ended = "no"
    BY <2>1 DEF Anonymous
  <2>3. ASSUME NEW q \in Asks, Granted(q)' PROVE ask'[q] = ask[q] /\ Granted(q)
    BY <2>1, <2>3, UnsentIsAsk DEF Granted
  <2>4. ASSUME NEW q \in Asks, NEW u \in Tabs, Strayed(q, u)' PROVE HadOneBefore(u)'
    <3>1. ask'[q] = ask[q] /\ ask[q].tab # t
      BY <2>1, <2>4, UnsentIsAsk DEF Strayed
    <3>2. Strayed(q, u) /\ u # t
      BY <2>4, <3>1 DEF Strayed
    <3>3. HadOneBefore(u)
      BY <3>2 DEF StrayInv
    <3> QED
      BY <2>1, <3>2, <3>3 DEF HadOneBefore
  <2>5. ASSUME NEW q \in Asks, Granted(q)' PROVE NewToken(q)'
    <3>1. Granted(q) /\ ask'[q] = ask[q] /\ NewToken(q)
      BY <2>3, <2>5 DEF StrayInv
    <3>2. ASSUME NEW u \in Tabs PROVE ask'[q].token \notin held'[u]
      BY <2>1, <3>1 DEF NewToken
    <3>3. ASSUME NEW p \in Asks, p # q, Granted(p)' PROVE ask'[p].token # ask'[q].token
      BY <2>3, <3>1, <3>3 DEF NewToken
    <3> QED
      BY <3>2, <3>3 DEF NewToken
  <2>6. ASSUME NEW u \in Tabs, tab'[u].ended = "stray" PROVE HadTwo(u)'
    BY <2>1, <2>2, <2>6 DEF StrayInv, HadTwo
  <2> QED
    BY <2>4, <2>5, <2>6 DEF StrayInv
<1> QED
  BY <1>1, <1>2, <1>3 DEF Expire, sessionsVars

LEMMA StrayInductive == SessionsSpec => []StrayInv
<1>1. SessionsInit => StrayInv
  BY UnsentIsAsk DEF SessionsInit, Anonymous, StrayInv, Strayed, Granted
<1>2. SessionsInv /\ StrayInv /\ [SessionsNext]_sessionsVars => StrayInv'
  BY ServerStrays, FailureStrays, SubmitStrays, CallStrays, SignStrays, DeliverStrays,
     OtherStrays DEF SessionsNext
<1> QED
  BY <1>1, <1>2, SessionsInductive, PTL DEF SessionsSpec

(* Whoever has a session gave the password of its account; and no session  *)
(* ends unasked but at an expired token of its own tab or, where the tab   *)
(* had one before, at the answer to a request without a token: for any     *)
(* number of tabs, accounts, requests and tokens.                          *)
THEOREM EverySessionIsEarned == SessionsSpec => []SessionsAreEarned
<1>1. SessionsInv /\ StrayInv => SessionsAreEarned
  BY DEF SessionsInv, EarnedTab, StrayInv, HadTwo, SessionsAreEarned
<1> QED
  BY <1>1, SessionsInductive, StrayInductive, PTL

-----------------------------------------------------------------------------
(* IncidentConsole.                                                        *)

(* The page waits for the last GET that it sent; the others are aborted.   *)
GetsAwaited ==
  /\ awaited # None <=> route \in Incidents
  /\ \A g \in Gets : /\ get[g].aborted => get[g].at = "body" /\ g # awaited
                     /\ get[g].at # "idle" /\ g # awaited => get[g].aborted

(* There is no more of the page of an incident than its route has.         *)
PageIsThere ==
  /\ detailError => route \in Incidents
  /\ detail # NoDetail => route \in Incidents /\ detail.id \in Incidents
  /\ form.on => detail.id \in Incidents
  /\ \A p \in Posts : post[p].page # None => route \in Incidents

ClosedWhenDone ==
  \A p \in Posts : post[p].at = "done" /\ post[p].target = Closed => actual[post[p].id] = Closed

(* What is asked, shown and sent is of the incident of the route.          *)
OwnPage ==
  /\ \A g \in Gets : get[g].at # "idle" /\ g = awaited => get[g].id = route
  /\ detail # NoDetail => detail.id = route
  /\ \A p \in Posts : /\ post[p].page # None => post[p].page = route /\ post[p].id = route
                      /\ post[p].form => post[p].id = route

(* What is shown, or on its way, is no older than the last answer.         *)
NothingOlder ==
  /\ settled # 0 => route \in Incidents /\ settled <= actual[route]
  /\ route \in Incidents => \/ detailError
                            \/ get[awaited].at # "idle"
                            \/ detail.id = route /\ detail.rank >= settled
  /\ \A g \in Gets : g = awaited /\ get[g].at = "body" => get[g].rank >= settled

FormIsOwn ==
  /\ form.on => /\ form.text \in {Blank, route}
                /\ typed[route] /\ actual[route] # Closed => form.text = route
  /\ form.submitted => route \in Incidents /\ actual[route] = Closed

DraftsAreOwn ==
  \A i \in Incidents : /\ draft[i] \in {None, Blank, i}
                       /\ typed[i] /\ actual[i] # Closed => draft[i] = i

ConsoleInv ==
  /\ ConsoleTypeOK /\ GetsAwaited /\ PageIsThere /\ ClosedWhenDone
  /\ ~ jumped => OwnPage /\ NothingOlder /\ FormIsOwn /\ DraftsAreOwn

LEMMA ConsoleBlanks ==
  /\ FreeGet \in Get /\ FreeGet.at = "idle" /\ FreeGet.aborted = FALSE
  /\ FreePost \in Post /\ FreePost.at = "idle" /\ FreePost.page = None /\ FreePost.form = FALSE
  /\ NoForm \in Form /\ NoForm.on = FALSE /\ NoForm.submitted = FALSE
  /\ NoDetail \in Shown /\ NoDetail.id = None /\ NoDetail.id \notin Incidents
  /\ None \notin Incidents /\ Blank \notin Incidents /\ Feed \notin Incidents
  /\ Login \notin Incidents /\ None \notin Gets
<1>1. PICK i \in Incidents : TRUE
  BY ConsoleAssumption
<1>2. (CHOOSE j \in Incidents : TRUE) \in Incidents
  BY <1>1
<1> HIDE <1>1
<1>3. FreeGet \in Get /\ FreeGet.at = "idle" /\ FreeGet.aborted = FALSE
  BY <1>2 DEF FreeGet, Get, Closed
<1>4. FreePost \in Post /\ FreePost.at = "idle" /\ FreePost.page = None /\ FreePost.form = FALSE
  BY <1>2 DEF FreePost, Post, Closed, Investigating, Resolved
<1>5. NoForm \in Form /\ NoForm.on = FALSE /\ NoForm.submitted = FALSE
  BY DEF NoForm, Form
<1>6. /\ None \notin Incidents /\ Blank \notin Incidents /\ Feed \notin Incidents
      /\ Login \notin Incidents /\ None \notin Gets
  BY ConsoleAssumption
<1>7. NoDetail \in Shown /\ NoDetail.id = None /\ NoDetail.id \notin Incidents
  BY <1>6 DEF NoDetail, Shown, Closed
<1> QED
  BY <1>3, <1>4, <1>5, <1>6, <1>7

(* What the GETs have to be for GetsAwaited, but for the route.            *)
GetsInOrder ==
  /\ get \in [Gets -> Get] /\ awaited \in Gets \cup {None}
  /\ \A g \in Gets : /\ get[g].aborted => get[g].at = "body" /\ g # awaited
                     /\ get[g].at # "idle" /\ g # awaited => get[g].aborted

LEMMA Abortion ==
  ASSUME GetsInOrder
  PROVE  /\ AbortGet \in [Gets -> Get]
         /\ \A g \in Gets : AbortGet[g].at # "idle" <=> AbortGet[g].aborted
         /\ \A g \in Gets : AbortGet[g].aborted => AbortGet[g].at = "body"
<1>1. CASE awaited = None
  <2>1. AbortGet = get
    BY <1>1 DEF AbortGet
  <2>2. \A g \in Gets : g # awaited
    BY <1>1, ConsoleBlanks
  <2>3. \A g \in Gets : get[g].aborted \in BOOLEAN
    BY DEF GetsInOrder, Get
  <2> QED
    BY <2>1, <2>2, <2>3 DEF GetsInOrder
<1>2. CASE awaited # None
  <2> DEFINE new == IF get[awaited].at = "body" THEN [get[awaited] EXCEPT !.aborted = TRUE]
                    ELSE FreeGet
  <2>1. AbortGet = [get EXCEPT ![awaited] = new]
    BY <1>2 DEF AbortGet
  <2>2. awaited \in Gets /\ get[awaited] \in Get
    BY <1>2 DEF GetsInOrder
  <2>3. /\ new \in Get
        /\ new.at # "idle" <=> new.aborted
        /\ new.aborted => new.at = "body"
    <3>1. CASE get[awaited].at = "body"
      BY <2>2, <3>1 DEF Get
    <3>2. CASE get[awaited].at # "body"
      BY <3>2, ConsoleBlanks
    <3> QED
      BY <3>1, <3>2
  <2> HIDE DEF new
  <2>4. AbortGet \in [Gets -> Get]
    BY <2>1, <2>2, <2>3 DEF GetsInOrder
  <2>5. ASSUME NEW g \in Gets
        PROVE  /\ AbortGet[g].at # "idle" <=> AbortGet[g].aborted
               /\ AbortGet[g].aborted => AbortGet[g].at = "body"
    <3>1. CASE g = awaited
      <4>1. AbortGet[g] = new
        BY <2>1, <2>2, <3>1 DEF GetsInOrder
      <4> QED
        BY <4>1, <2>3
    <3>2. CASE g # awaited
      <4>1. AbortGet[g] = get[g]
        BY <2>1, <2>2, <3>2 DEF GetsInOrder
      <4>2. get[g].aborted \in BOOLEAN
        BY DEF GetsInOrder, Get
      <4> QED
        BY <4>1, <4>2, <3>2 DEF GetsInOrder
    <3> QED
      BY <3>1, <3>2
  <2> QED
    BY <2>4, <2>5
<1> QED
  BY <1>1, <1>2

LEMMA Fetched ==
  ASSUME GetsInOrder, NEW i \in Incidents, FetchDetail(i)
  PROVE  /\ GetsInOrder' /\ awaited' \in Gets
         /\ get'[awaited'].at = "asked" /\ get'[awaited'].id = i
<1> DEFINE free == {g \in Gets : AbortGet[g].at = "idle"}
           it == CHOOSE g \in free : TRUE
           asks == [FreeGet EXCEPT !.at = "asked", !.id = i]
<1>1. free # {} /\ get' = [AbortGet EXCEPT ![it] = asks] /\ awaited' = it
  BY DEF FetchDetail
<1>2. it \in free
  BY <1>1
<1>3. it \in Gets
  BY <1>2
<1>4. asks \in Get /\ asks.at = "asked" /\ asks.id = i /\ asks.aborted = FALSE
  BY ConsoleBlanks DEF Get, FreeGet
<1> HIDE DEF free, it, asks
<1>5. get' \in [Gets -> Get] /\ get'[it] = asks
  BY <1>1, <1>3, <1>4, Abortion
<1>6. ASSUME NEW g \in Gets
      PROVE  /\ get'[g].aborted => get'[g].at = "body" /\ g # awaited'
             /\ get'[g].at # "idle" /\ g # awaited' => get'[g].aborted
  <2>1. CASE g = it
    BY <1>1, <1>4, <1>5, <2>1
  <2>2. CASE g # it
    <3>1. get'[g] = AbortGet[g]
      BY <1>1, <2>2, Abortion
    <3> QED
      BY <3>1, <1>1, <2>2, Abortion
  <2> QED
    BY <2>1, <2>2
<1> QED
  BY <1>1, <1>3, <1>4, <1>5, <1>6 DEF GetsInOrder

LEMMA InOrder == ConsoleInv => GetsInOrder
BY DEF ConsoleInv, ConsoleTypeOK, GetsAwaited, GetsInOrder

LEMMA ConsoleInitInv == ConsoleInit => ConsoleInv
<1> SUFFICES ASSUME ConsoleInit PROVE ConsoleInv
  OBVIOUS
<1>1. get \in [Gets -> Get] /\ \A g \in Gets : get[g] = FreeGet
  BY ConsoleBlanks DEF ConsoleInit
<1>2. post \in [Posts -> Post] /\ \A p \in Posts : post[p] = FreePost
  BY ConsoleBlanks DEF ConsoleInit
<1>3. ConsoleTypeOK
  <2>1. /\ draft \in [Incidents -> Incidents \cup {Blank, None}]
        /\ typed \in [Incidents -> BOOLEAN]
    BY DEF ConsoleInit
  <2>2. /\ actual \in [Incidents -> 0..Closed] /\ settled \in 0..Closed
        /\ {visits, others, mishaps} \subseteq Nat
    BY DEF ConsoleInit, Closed
  <2>4. {detailError, jumped} \subseteq BOOLEAN
    BY Zenon DEF ConsoleInit
  <2>3. /\ route \in Incidents \cup {Feed, Login} /\ from \in Incidents \cup {Feed}
        /\ parked \in Incidents \cup {Feed, None} /\ awaited \in Gets \cup {None}
        /\ detail \in Shown /\ form \in Form
    BY ConsoleBlanks DEF ConsoleInit
  <2> QED
    BY <1>1, <1>2, <2>1, <2>2, <2>3, <2>4 DEF ConsoleTypeOK
<1>4. route \notin Incidents /\ detail.id = None /\ form.on = FALSE /\ form.submitted = FALSE
  BY ConsoleBlanks DEF ConsoleInit
<1>5. GetsAwaited
  BY <1>1, <1>4, ConsoleBlanks DEF GetsAwaited, ConsoleInit
<1>6. PageIsThere /\ ClosedWhenDone
  BY <1>2, <1>4, ConsoleBlanks DEF PageIsThere, ClosedWhenDone, ConsoleInit
<1>7. OwnPage /\ NothingOlder
  BY <1>1, <1>2, <1>4, ConsoleBlanks DEF OwnPage, NothingOlder, ConsoleInit
<1>8. FormIsOwn /\ DraftsAreOwn
  BY <1>4 DEF FormIsOwn, DraftsAreOwn, ConsoleInit
<1> QED
  BY <1>3, <1>5, <1>6, <1>7, <1>8 DEF ConsoleInv

LEMMA ArrivesAtAPage ==
  ASSUME ConsoleInv, NEW r \in Incidents, route \notin Incidents, FetchDetail(r),
         route' = r, detail' = NoDetail, detailError' = FALSE,
         settled' \in 0..Closed, ~ jumped => settled' = 0, parked' \in {parked, None},
         visits' \in Nat,
         UNCHANGED <<post, form, jumped, others, mishaps, actual, from, draft, typed>>
  PROVE  ConsoleInv'
<1>1. GetsInOrder' /\ awaited' \in Gets /\ get'[awaited'].at = "asked" /\ get'[awaited'].id = r
  BY Fetched, InOrder
<1>2. form.on = FALSE /\ form.submitted \in BOOLEAN
  <2>1. form.on \in BOOLEAN /\ form.submitted \in BOOLEAN
    BY DEF ConsoleInv, ConsoleTypeOK, Form
  <2> QED
    BY <2>1, ConsoleBlanks DEF ConsoleInv, PageIsThere
<1>3. \A p \in Posts : post[p].page = None
  BY DEF ConsoleInv, PageIsThere
<1>4. ConsoleTypeOK'
  <2>1. {detailError', jumped'} \subseteq BOOLEAN
    BY Zenon DEF ConsoleInv, ConsoleTypeOK
  <2>2. /\ route' \in Incidents \cup {Feed, Login} /\ parked' \in Incidents \cup {Feed, None}
        /\ detail' \in Shown /\ settled' \in 0..Closed
    BY ConsoleBlanks DEF ConsoleInv, ConsoleTypeOK, Closed
  <2> QED
    BY <1>1, <2>1, <2>2 DEF ConsoleInv, ConsoleTypeOK, GetsInOrder
<1>5. GetsAwaited'
  BY <1>1, ConsoleBlanks DEF GetsAwaited, GetsInOrder
<1>6. PageIsThere' /\ ClosedWhenDone'
  BY <1>2, <1>3 DEF ConsoleInv, PageIsThere, ClosedWhenDone
<1>7. ASSUME ~ jumped' PROVE OwnPage' /\ NothingOlder' /\ FormIsOwn' /\ DraftsAreOwn'
  <2>1. OwnPage /\ FormIsOwn /\ DraftsAreOwn
    BY <1>7 DEF ConsoleInv
  <2>2. \A p \in Posts : ~ post[p].form
    <3> SUFFICES ASSUME NEW p \in Posts, post[p].form PROVE FALSE
      OBVIOUS
    <3>1. post[p].id \in Incidents
      BY DEF ConsoleInv, ConsoleTypeOK, Post
    <3> QED
      BY <2>1, <3>1 DEF OwnPage
  <2>3. OwnPage'
    BY <1>1, <1>3, <2>2 DEF OwnPage
  <2>4. NothingOlder'
    BY <1>1, <1>7 DEF NothingOlder
  <2>5. FormIsOwn'
    BY <1>2, <2>1 DEF FormIsOwn
  <2>6. DraftsAreOwn'
    BY <2>1 DEF DraftsAreOwn
  <2> QED
    BY <2>3, <2>4, <2>5, <2>6
<1> QED
  BY <1>4, <1>5, <1>6, <1>7 DEF ConsoleInv

LEMMA LeavesThePage ==
  ASSUME ConsoleInv, LeavePage, route' \in {Feed, Login}, from' \in Incidents \cup {Feed},
         mishaps' \in Nat, UNCHANGED <<actual, draft, typed, jumped, visits, others>>
  PROVE  ConsoleInv'
<1>0. /\ get' = AbortGet /\ awaited' = None /\ detail' = NoDetail /\ detailError' = FALSE
      /\ form' = NoForm /\ parked' = None /\ settled' = 0
  BY Zenon DEF LeavePage
<1>1. /\ get' \in [Gets -> Get] /\ awaited' = None
      /\ \A g \in Gets : /\ get'[g].at # "idle" <=> get'[g].aborted
                         /\ get'[g].aborted => get'[g].at = "body"
  BY <1>0, Abortion, InOrder
<1>2. \A g \in Gets : g # awaited'
  BY <1>1, ConsoleBlanks
<1>3. route' \notin Incidents
  BY ConsoleBlanks
<1> DEFINE cut(p) == [post[p] EXCEPT !.page = None, !.form = FALSE]
<1>a. post' = [p \in Posts |-> cut(p)]
  BY Zenon DEF LeavePage
<1>b. ASSUME NEW p \in Posts
      PROVE  /\ cut(p) \in Post /\ cut(p).page = None /\ cut(p).form = FALSE
             /\ cut(p).at = post[p].at /\ cut(p).target = post[p].target
             /\ cut(p).id = post[p].id
  <2>1. post[p] \in Post
    BY DEF ConsoleInv, ConsoleTypeOK
  <2> QED
    BY <2>1 DEF Post
<1> HIDE DEF cut
<1>4. ASSUME NEW p \in Posts
      PROVE  /\ post'[p].page = None /\ post'[p].form = FALSE
             /\ post'[p].at = post[p].at /\ post'[p].target = post[p].target
             /\ post'[p].id = post[p].id
  <2>1. post'[p] = cut(p)
    BY <1>a, Zenon
  <2> QED
    BY <1>b, <2>1
<1>5. post' \in [Posts -> Post]
  BY <1>a, <1>b, Zenon
<1>6. ConsoleTypeOK'
  <2>1. {detailError', jumped'} \subseteq BOOLEAN
    BY <1>0, Zenon DEF ConsoleInv, ConsoleTypeOK
  <2>2. /\ detail' \in Shown /\ form' \in Form /\ settled' \in 0..Closed
        /\ parked' \in Incidents \cup {Feed, None}
    BY <1>0, ConsoleBlanks DEF Closed
  <2> QED
    BY <1>1, <1>5, <2>1, <2>2 DEF ConsoleInv, ConsoleTypeOK
<1>7. GetsAwaited'
  BY <1>1, <1>2, <1>3 DEF GetsAwaited
<1>8. PageIsThere'
  BY <1>0, <1>4, ConsoleBlanks DEF PageIsThere
<1>9. ClosedWhenDone'
  BY <1>4 DEF ConsoleInv, ClosedWhenDone
<1>10. ASSUME ~ jumped' PROVE OwnPage' /\ NothingOlder' /\ FormIsOwn' /\ DraftsAreOwn'
  <2>1. DraftsAreOwn
    BY <1>10 DEF ConsoleInv
  <2>2. OwnPage'
    BY <1>0, <1>2, <1>4, ConsoleBlanks DEF OwnPage
  <2>3. NothingOlder'
    BY <1>0, <1>2, <1>3 DEF NothingOlder
  <2>4. FormIsOwn'
    BY <1>0, ConsoleBlanks DEF FormIsOwn
  <2>5. DraftsAreOwn'
    BY <2>1 DEF DraftsAreOwn
  <2> QED
    BY <2>2, <2>3, <2>4, <2>5
<1> QED
  BY <1>6, <1>7, <1>8, <1>9, <1>10 DEF ConsoleInv

(* From one page to another's, nothing is claimed but what holds of any.   *)
LEMMA JumpsToAPage ==
  ASSUME ConsoleInv, NEW r \in Incidents, route \in Incidents, FetchDetail(r), Mishap,
         route' = r, jumped' = TRUE, parked' = None,
         UNCHANGED <<detail, detailError, settled, post, form, visits, others,
                     actual, from, draft, typed>>
  PROVE  ConsoleInv'
<1>1. GetsInOrder' /\ awaited' \in Gets
  BY Fetched, InOrder
<1>2. mishaps' \in Nat
  BY DEF Mishap, ConsoleInv, ConsoleTypeOK
<1>3. ConsoleTypeOK'
  BY <1>1, <1>2 DEF ConsoleInv, ConsoleTypeOK, GetsInOrder
<1>4. GetsAwaited'
  BY <1>1, ConsoleBlanks DEF GetsAwaited, GetsInOrder
<1>5. PageIsThere' /\ ClosedWhenDone'
  BY DEF ConsoleInv, PageIsThere, ClosedWhenDone
<1> QED
  BY <1>3, <1>4, <1>5 DEF ConsoleInv

LEMMA GoKeeps ==
  ASSUME ConsoleInv, NEW r \in Incidents \cup {Feed}, Go(r)
  PROVE  ConsoleInv'
<1>1. CASE r \in Incidents /\ route \notin Incidents
  <2>1. /\ FetchDetail(r) /\ visits' = visits + 1
        /\ detail' = NoDetail /\ detailError' = FALSE /\ settled' = 0 /\ parked' = None
        /\ route' = r
        /\ UNCHANGED <<post, form, jumped, others, mishaps, actual, from, draft, typed>>
    BY <1>1 DEF Go
  <2>2. visits' \in Nat
    BY <2>1 DEF ConsoleInv, ConsoleTypeOK
  <2>3. settled' \in 0..Closed
    BY <2>1 DEF Closed
  <2> QED
    BY <1>1, <2>1, <2>2, <2>3, ArrivesAtAPage
<1>2. CASE r \in Incidents /\ route \in Incidents
  <2>1. /\ FetchDetail(r) /\ Mishap /\ jumped' = TRUE /\ parked' = None /\ route' = r
        /\ UNCHANGED <<detail, detailError, settled, post, form, visits, others,
                       actual, from, draft, typed>>
    BY <1>2 DEF Go
  <2> QED
    BY <1>2, <2>1, JumpsToAPage
<1>3. CASE r \notin Incidents
  <2>1. /\ LeavePage /\ route' = Feed
        /\ UNCHANGED <<actual, from, draft, typed, jumped, visits, others, mishaps>>
    BY <1>3 DEF Go, boundVars
  <2>2. from' \in Incidents \cup {Feed} /\ mishaps' \in Nat
    BY <2>1 DEF ConsoleInv, ConsoleTypeOK
  <2> QED
    BY <2>1, <2>2, LeavesThePage
<1> QED
  BY <1>1, <1>2, <1>3

(* Steps that only change what is parked, or where a login returns to.     *)
LEMMA ParkingKeeps ==
  ASSUME ConsoleInv, parked' \in Incidents \cup {Feed, None},
         UNCHANGED <<actual, route, from, pageVars, post, formVars, settled, jumped, boundVars>>
  PROVE  ConsoleInv'
<1> USE DEF pageVars, formVars, boundVars
<1>1. ConsoleTypeOK'
  BY DEF ConsoleInv, ConsoleTypeOK
<1>2. GetsAwaited' /\ PageIsThere' /\ ClosedWhenDone'
  BY DEF ConsoleInv, GetsAwaited, PageIsThere, ClosedWhenDone
<1>3. (OwnPage <=> OwnPage') /\ (NothingOlder <=> NothingOlder')
      /\ (FormIsOwn <=> FormIsOwn') /\ (DraftsAreOwn <=> DraftsAreOwn')
  BY DEF OwnPage, NothingOlder, FormIsOwn, DraftsAreOwn
<1> QED
  BY <1>1, <1>2, <1>3 DEF ConsoleInv

LEMMA ReturnsToTheFeed ==
  ASSUME ConsoleInv, route \notin Incidents, route' = Feed, parked' = parked,
         UNCHANGED <<actual, from, pageVars, post, formVars, settled, jumped, boundVars>>
  PROVE  ConsoleInv'
<1> USE DEF pageVars, formVars, boundVars
<1>1. route' \notin Incidents
  BY ConsoleBlanks
<1>2. ConsoleTypeOK'
  BY DEF ConsoleInv, ConsoleTypeOK
<1>3. GetsAwaited' /\ PageIsThere' /\ ClosedWhenDone'
  BY <1>1 DEF ConsoleInv, GetsAwaited, PageIsThere, ClosedWhenDone
<1>4. \A g \in Gets : g # awaited
  BY ConsoleBlanks DEF ConsoleInv, GetsAwaited
<1>5. form.on = FALSE /\ form.submitted \in BOOLEAN
  <2>1. form.on \in BOOLEAN /\ form.submitted \in BOOLEAN
    BY DEF ConsoleInv, ConsoleTypeOK, Form
  <2> QED
    BY <2>1, ConsoleBlanks DEF ConsoleInv, PageIsThere
<1>6. detail = NoDetail /\ \A p \in Posts : post[p].page = None
  BY DEF ConsoleInv, PageIsThere
<1>7. ASSUME ~ jumped' PROVE OwnPage' /\ NothingOlder' /\ FormIsOwn' /\ DraftsAreOwn'
  <2>1. OwnPage /\ NothingOlder /\ FormIsOwn /\ DraftsAreOwn
    BY <1>7 DEF ConsoleInv
  <2>2. \A p \in Posts : ~ post[p].form
    <3> SUFFICES ASSUME NEW p \in Posts, post[p].form PROVE FALSE
      OBVIOUS
    <3>1. post[p].id \in Incidents
      BY DEF ConsoleInv, ConsoleTypeOK, Post
    <3> QED
      BY <2>1, <3>1 DEF OwnPage
  <2>3. OwnPage'
    BY <1>4, <1>6, <2>2 DEF OwnPage
  <2>4. NothingOlder'
    BY <1>1, <1>4, <2>1 DEF NothingOlder
  <2>5. FormIsOwn'
    BY <1>5, <2>1 DEF FormIsOwn
  <2>6. DraftsAreOwn'
    BY <2>1 DEF DraftsAreOwn
  <2> QED
    BY <2>3, <2>4, <2>5, <2>6
<1> QED
  BY <1>2, <1>3, <1>7 DEF ConsoleInv

LEMMA NavigateKeeps ==
  ASSUME ConsoleInv, NEW r \in Incidents \cup {Feed}, Navigate(r)
  PROVE  ConsoleInv'
<1>1. CASE Go(r)
  BY <1>1, GoKeeps
<1>2. CASE ~ Go(r)
  <2>1. /\ parked' = r
        /\ UNCHANGED <<actual, route, from, pageVars, post, formVars, settled, jumped, boundVars>>
    BY <1>2 DEF Navigate
  <2> QED
    BY <2>1, ParkingKeeps
<1> QED
  BY <1>1, <1>2

LEMMA ProceedKeeps ==
  ASSUME ConsoleInv, parked # None, Go(parked)
  PROVE  ConsoleInv'
<1>1. parked \in Incidents \cup {Feed}
  BY DEF ConsoleInv, ConsoleTypeOK
<1> QED
  BY <1>1, GoKeeps

LEMMA LogoutKeeps ==
  ASSUME ConsoleInv, Logout
  PROVE  ConsoleInv'
<1>1. mishaps' \in Nat
  BY DEF Logout, Mishap, ConsoleInv, ConsoleTypeOK
<1>2. from' \in Incidents \cup {Feed}
  BY DEF Logout, ConsoleInv, ConsoleTypeOK
<1> QED
  BY <1>1, <1>2, LeavesThePage DEF Logout

LEMMA LogInKeeps ==
  ASSUME ConsoleInv, LogIn
  PROVE  ConsoleInv'
<1>1. route \notin Incidents
  BY ConsoleBlanks DEF LogIn
<1>2. detail = NoDetail /\ detailError = FALSE
  BY <1>1 DEF ConsoleInv, ConsoleTypeOK, PageIsThere
<1>3. settled \in 0..Closed /\ (~ jumped => settled = 0)
  BY <1>1 DEF ConsoleInv, ConsoleTypeOK, NothingOlder
<1>4. CASE from \in Incidents
  <2>1. /\ FetchDetail(from) /\ visits' = visits + 1 /\ route' = from
        /\ UNCHANGED <<detail, detailError, settled, parked, post, form, jumped, others, mishaps,
                       actual, from, draft, typed>>
    BY <1>4, ConsoleBlanks DEF LogIn, formVars
  <2>2. visits' \in Nat
    BY <2>1 DEF ConsoleInv, ConsoleTypeOK
  <2>3. /\ detail' = NoDetail /\ detailError' = FALSE /\ parked' \in {parked, None}
        /\ settled' \in 0..Closed /\ (~ jumped => settled' = 0)
    BY <1>2, <1>3, <2>1
  <2> QED
    BY <1>1, <1>4, <2>1, <2>2, <2>3, ArrivesAtAPage
<1>5. CASE from \notin Incidents
  <2>1. /\ route' = Feed /\ parked' = parked
        /\ UNCHANGED <<actual, from, pageVars, post, formVars, settled, jumped, boundVars>>
    BY <1>5 DEF LogIn, pageVars, boundVars, ConsoleInv, ConsoleTypeOK
  <2> QED
    BY <1>1, <2>1, ReturnsToTheFeed
<1> QED
  BY <1>4, <1>5

LEMMA ReloadKeeps ==
  ASSUME ConsoleInv, Reload
  PROVE  ConsoleInv'
<1>1. /\ get' = [g \in Gets |-> FreeGet] /\ awaited' = None /\ detail' = NoDetail
      /\ detailError' = FALSE /\ form' = NoForm /\ parked' = None /\ settled' = 0
      /\ route' = Login /\ from' = (IF route = Login THEN from ELSE route)
      /\ actual' = actual /\ draft' = draft /\ typed' = typed /\ jumped' = jumped
      /\ visits' = visits /\ others' = others
  BY Zenon DEF Reload
<1>2. post' = [p \in Posts |-> FreePost] /\ mishaps' \in Nat
  BY DEF Reload, Mishap, ConsoleInv, ConsoleTypeOK
<1>3. route' \notin Incidents /\ \A g \in Gets : g # awaited'
  BY <1>1, ConsoleBlanks
<1>4. ASSUME NEW g \in Gets PROVE get'[g] = FreeGet
  BY <1>1, Zenon
<1>5. ASSUME NEW p \in Posts PROVE post'[p] = FreePost
  BY <1>2, Zenon
<1>6. get' \in [Gets -> Get] /\ post' \in [Posts -> Post]
  BY <1>1, <1>2, ConsoleBlanks, Zenon
<1> HIDE <1>2
<1>7. ConsoleTypeOK'
  <2>1. {detailError', jumped'} \subseteq BOOLEAN
    BY <1>1, Zenon DEF ConsoleInv, ConsoleTypeOK
  <2>2. /\ detail' \in Shown /\ form' \in Form /\ settled' \in 0..Closed
        /\ parked' \in Incidents \cup {Feed, None} /\ awaited' \in Gets \cup {None}
    BY <1>1, ConsoleBlanks DEF Closed
  <2>3. route' \in Incidents \cup {Feed, Login} /\ from' \in Incidents \cup {Feed}
    BY <1>1 DEF ConsoleInv, ConsoleTypeOK
  <2>4. mishaps' \in Nat
    BY <1>2
  <2>5. /\ actual' \in [Incidents -> 0..Closed]
        /\ draft' \in [Incidents -> Incidents \cup {Blank, None}]
        /\ typed' \in [Incidents -> BOOLEAN] /\ {visits', others'} \subseteq Nat
    BY <1>1, Zenon DEF ConsoleInv, ConsoleTypeOK
  <2> QED
    BY <1>6, <2>1, <2>2, <2>3, <2>4, <2>5 DEF ConsoleTypeOK
<1>8. GetsAwaited'
  BY <1>1, <1>3, <1>4, ConsoleBlanks DEF GetsAwaited
<1>9. PageIsThere' /\ ClosedWhenDone'
  BY <1>1, <1>5, ConsoleBlanks DEF PageIsThere, ClosedWhenDone
<1>10. ASSUME ~ jumped' PROVE OwnPage' /\ NothingOlder' /\ FormIsOwn' /\ DraftsAreOwn'
  <2>1. DraftsAreOwn
    BY <1>1, <1>10 DEF ConsoleInv
  <2>2. OwnPage'
    BY <1>1, <1>3, <1>5, ConsoleBlanks DEF OwnPage
  <2>3. NothingOlder'
    BY <1>1, <1>3 DEF NothingOlder
  <2>4. FormIsOwn'
    BY <1>1, ConsoleBlanks DEF FormIsOwn
  <2>5. DraftsAreOwn'
    BY <1>1, <2>1 DEF DraftsAreOwn
  <2> QED
    BY <2>2, <2>3, <2>4, <2>5
<1> QED
  BY <1>7, <1>8, <1>9, <1>10 DEF ConsoleInv

LEMMA RetryDetailKeeps ==
  ASSUME ConsoleInv, RetryDetail
  PROVE  ConsoleInv'
<1> USE DEF tabVars, formVars, boundVars
<1>1. detail = NoDetail /\ detailError /\ FetchDetail(route)
  BY DEF RetryDetail
<1>2. route \in Incidents
  BY <1>1 DEF ConsoleInv, PageIsThere
<1>3. GetsInOrder' /\ awaited' \in Gets /\ get'[awaited'].at = "asked" /\ get'[awaited'].id = route
  BY <1>1, <1>2, Fetched, InOrder
<1>4. UNCHANGED <<actual, route, from, parked, detail, detailError, post, form, draft, typed,
                  settled, jumped, visits, others, mishaps>>
  BY DEF RetryDetail
<1>5. ConsoleTypeOK'
  BY <1>3, <1>4 DEF ConsoleInv, ConsoleTypeOK, GetsInOrder
<1>6. GetsAwaited'
  BY <1>2, <1>3, <1>4, ConsoleBlanks DEF GetsAwaited, GetsInOrder
<1>7. PageIsThere' /\ ClosedWhenDone'
  BY <1>4 DEF ConsoleInv, PageIsThere, ClosedWhenDone
<1>8. ASSUME ~ jumped' PROVE OwnPage' /\ NothingOlder' /\ FormIsOwn' /\ DraftsAreOwn'
  <2>1. OwnPage /\ NothingOlder /\ FormIsOwn /\ DraftsAreOwn
    BY <1>4, <1>8 DEF ConsoleInv
  <2>2. OwnPage'
    BY <1>3, <1>4, <2>1 DEF OwnPage
  <2>3. NothingOlder'
    BY <1>3, <1>4, <2>1 DEF NothingOlder
  <2>4. FormIsOwn' /\ DraftsAreOwn'
    BY <1>4, <2>1 DEF FormIsOwn, DraftsAreOwn
  <2> QED
    BY <2>2, <2>3, <2>4
<1> QED
  BY <1>5, <1>6, <1>7, <1>8 DEF ConsoleInv

(* Steps by which an incident may move.                                    *)
LEMMA MovesKeepThePage ==
  ASSUME ConsoleInv, NEW i \in Incidents, actual[i] < Closed,
         actual' = [actual EXCEPT ![i] = actual[i] + 1],
         UNCHANGED <<route, pageVars, formVars, settled, jumped>>
  PROVE  /\ actual' \in [Incidents -> 0..Closed]
         /\ \A j \in Incidents : actual'[j] >= actual[j]
         /\ \A j \in Incidents : actual[j] = Closed => actual'[j] = Closed
         /\ ~ jumped' => NothingOlder' /\ FormIsOwn' /\ DraftsAreOwn'
<1> USE DEF pageVars, formVars, Closed
<1>1. actual \in [Incidents -> 0..3]
  BY DEF ConsoleInv, ConsoleTypeOK
<1>2. /\ actual' \in [Incidents -> 0..3]
      /\ \A j \in Incidents : actual'[j] >= actual[j]
      /\ \A j \in Incidents : actual[j] = 3 => actual'[j] = 3
  BY <1>1
<1>3. ASSUME ~ jumped' PROVE NothingOlder' /\ FormIsOwn' /\ DraftsAreOwn'
  <2>1. NothingOlder /\ FormIsOwn /\ DraftsAreOwn
    BY <1>3 DEF ConsoleInv
  <2>2. settled \in 0..3
    BY DEF ConsoleInv, ConsoleTypeOK
  <2>3. NothingOlder'
    <3>1. settled' # 0 => route' \in Incidents /\ settled' <= actual'[route']
      BY <1>1, <1>2, <2>1, <2>2 DEF NothingOlder
    <3> QED
      BY <2>1, <3>1 DEF NothingOlder
  <2>4. form.on => route \in Incidents
    BY ConsoleBlanks DEF ConsoleInv, PageIsThere
  <2>5. FormIsOwn'
    BY <1>1, <1>2, <2>1, <2>4 DEF FormIsOwn
  <2>6. DraftsAreOwn'
    BY <1>1, <1>2, <2>1 DEF DraftsAreOwn
  <2> QED
    BY <2>3, <2>5, <2>6
<1> QED
  BY <1>2, <1>3

LEMMA OthersMoveKeeps ==
  ASSUME ConsoleInv, NEW i \in Incidents, OthersMove(i)
  PROVE  ConsoleInv'
<1> USE DEF tabVars, pageVars, formVars
<1>1. /\ actual[i] < Closed /\ actual' = [actual EXCEPT ![i] = actual[i] + 1]
      /\ UNCHANGED <<route, from, parked, detail, detailError, get, awaited, post, form, draft,
                     typed, settled, jumped, visits, mishaps>>
      /\ others' = others + 1
  BY DEF OthersMove
<1>2. /\ actual' \in [Incidents -> 0..Closed]
      /\ \A j \in Incidents : actual[j] = Closed => actual'[j] = Closed
      /\ ~ jumped' => NothingOlder' /\ FormIsOwn' /\ DraftsAreOwn'
  BY <1>1, MovesKeepThePage
<1>3. ConsoleTypeOK'
  BY <1>1, <1>2 DEF ConsoleInv, ConsoleTypeOK
<1>4. GetsAwaited' /\ PageIsThere'
  BY <1>1 DEF ConsoleInv, GetsAwaited, PageIsThere
<1>5. ClosedWhenDone'
  <2>1. \A p \in Posts : post[p].id \in Incidents
    BY DEF ConsoleInv, ConsoleTypeOK, Post
  <2> QED
    BY <1>1, <1>2, <2>1 DEF ConsoleInv, ClosedWhenDone
<1>6. OwnPage <=> OwnPage'
  BY <1>1 DEF OwnPage
<1> QED
  BY <1>1, <1>2, <1>3, <1>4, <1>5, <1>6 DEF ConsoleInv

(* The GETs.                                                               *)
LEMMA GetServedKeeps ==
  ASSUME ConsoleInv, NEW g \in Gets, GetServed(g)
  PROVE  ConsoleInv'
<1> USE DEF tabVars, formVars, boundVars
<1> DEFINE new == [get[g] EXCEPT !.at = "body", !.rank = actual[get[g].id]]
<1>1. get[g].at = "asked" /\ get[g] \in Get /\ get \in [Gets -> Get]
  BY DEF GetServed, ConsoleInv, ConsoleTypeOK
<1>2. actual[get[g].id] \in 0..Closed
  BY <1>1 DEF ConsoleInv, ConsoleTypeOK, Get
<1>3. /\ new \in Get /\ new.at = "body" /\ new.id = get[g].id /\ new.aborted = get[g].aborted
      /\ new.rank = actual[get[g].id]
  BY <1>1, <1>2 DEF Get
<1>4. get' = [get EXCEPT ![g] = new]
  BY <1>1 DEF GetServed, Get
<1> HIDE DEF new
<1>5. UNCHANGED <<actual, route, from, parked, detail, detailError, awaited, post, form, draft,
                  typed, settled, jumped, visits, others, mishaps>>
  BY DEF GetServed
<1>6. /\ get' \in [Gets -> Get] /\ get'[g] = new
      /\ \A h \in Gets : h # g => get'[h] = get[h]
  BY <1>1, <1>3, <1>4
<1>7. ConsoleTypeOK'
  BY <1>5, <1>6 DEF ConsoleInv, ConsoleTypeOK
<1>8. /\ get[g].aborted = FALSE /\ g = awaited
  BY <1>1 DEF ConsoleInv, GetsAwaited, Get
<1>9. GetsAwaited'
  BY <1>3, <1>5, <1>6, <1>8 DEF ConsoleInv, GetsAwaited
<1>10. PageIsThere' /\ ClosedWhenDone'
  BY <1>5 DEF ConsoleInv, PageIsThere, ClosedWhenDone
<1>11. ASSUME ~ jumped' PROVE OwnPage' /\ NothingOlder' /\ FormIsOwn' /\ DraftsAreOwn'
  <2>1. OwnPage /\ NothingOlder /\ FormIsOwn /\ DraftsAreOwn
    BY <1>5, <1>11 DEF ConsoleInv
  <2>2. OwnPage'
    BY <1>1, <1>3, <1>5, <1>6, <1>8, <2>1 DEF OwnPage
  <2>3. get[g].id = route
    BY <1>1, <1>8, <2>1 DEF OwnPage
  <2>4. new.rank >= settled
    <3>1. settled \in 0..Closed /\ route \in Incidents
      BY <1>1, <2>3 DEF ConsoleInv, ConsoleTypeOK, Get
    <3>2. CASE settled = 0
      BY <1>2, <1>3, <3>2 DEF Closed
    <3>3. CASE settled # 0
      BY <1>2, <1>3, <2>1, <2>3, <3>1, <3>3 DEF NothingOlder, Closed
    <3> QED
      BY <3>2, <3>3
  <2>5. NothingOlder'
    BY <1>3, <1>5, <1>6, <1>8, <2>1, <2>4 DEF NothingOlder
  <2>6. FormIsOwn' /\ DraftsAreOwn'
    BY <1>5, <2>1 DEF FormIsOwn, DraftsAreOwn
  <2> QED
    BY <2>2, <2>5, <2>6
<1> QED
  BY <1>7, <1>9, <1>10, <1>11 DEF ConsoleInv

(* A GET that is over.                                                     *)
LEMMA Freed ==
  ASSUME ConsoleInv, NEW g \in Gets, get' = [get EXCEPT ![g] = FreeGet], awaited' = awaited,
         route' = route
  PROVE  /\ get' \in [Gets -> Get] /\ get'[g] = FreeGet
         /\ \A h \in Gets : h # g => get'[h] = get[h]
         /\ GetsAwaited'
<1>1. get \in [Gets -> Get]
  BY DEF ConsoleInv, ConsoleTypeOK
<1>2. /\ get' \in [Gets -> Get] /\ get'[g] = FreeGet
      /\ \A h \in Gets : h # g => get'[h] = get[h]
  BY <1>1, ConsoleBlanks
<1>3. GetsAwaited'
  BY <1>2, ConsoleBlanks DEF ConsoleInv, GetsAwaited
<1> QED
  BY <1>2, <1>3

LEMMA GetFailsKeeps ==
  ASSUME ConsoleInv, NEW g \in Gets, GetFails(g)
  PROVE  ConsoleInv'
<1> USE DEF tabVars, formVars
<1>1. /\ get[g].at # "idle" /\ get' = [get EXCEPT ![g] = FreeGet]
      /\ UNCHANGED <<actual, route, from, parked, detail, awaited, post, form, draft, typed,
                     settled, jumped, visits, others>>
      /\ mishaps' = mishaps + 1
  BY DEF GetFails, Mishap
<1>2. /\ get' \in [Gets -> Get] /\ get'[g] = FreeGet
      /\ \A h \in Gets : h # g => get'[h] = get[h]
      /\ GetsAwaited'
  BY <1>1, Freed
<1>3. detailError \in BOOLEAN /\ get[g].aborted \in BOOLEAN
  BY DEF ConsoleInv, ConsoleTypeOK, Get
<1>4. detailError' = (detailError \/ ~ get[g].aborted)
  BY DEF GetFails, Unaborted
<1>5. detailError' \in BOOLEAN
  BY <1>3, <1>4, Zenon
<1>6. detailError' <=> detailError \/ ~ get[g].aborted
  BY <1>4, Zenon
<1>7. get[g].aborted <=> g # awaited
  BY <1>1, <1>3 DEF ConsoleInv, GetsAwaited
<1> HIDE <1>4
<1>8. ConsoleTypeOK'
  <2>1. mishaps' \in Nat
    BY <1>1 DEF ConsoleInv, ConsoleTypeOK
  <2> QED
    BY <1>1, <1>2, <1>5, <2>1 DEF ConsoleInv, ConsoleTypeOK
<1>9. awaited # None => route \in Incidents
  BY DEF ConsoleInv, GetsAwaited
<1>10. PageIsThere'
  BY <1>1, <1>6, <1>7, <1>9, ConsoleBlanks DEF ConsoleInv, PageIsThere
<1>11. ClosedWhenDone'
  BY <1>1 DEF ConsoleInv, ClosedWhenDone
<1>12. ASSUME ~ jumped' PROVE OwnPage' /\ NothingOlder' /\ FormIsOwn' /\ DraftsAreOwn'
  <2>1. OwnPage /\ NothingOlder /\ FormIsOwn /\ DraftsAreOwn
    BY <1>1, <1>12 DEF ConsoleInv
  <2>2. OwnPage'
    BY <1>1, <1>2, <2>1, ConsoleBlanks DEF OwnPage
  <2>3. NothingOlder'
    <3>1. CASE g = awaited
      BY <1>1, <1>2, <1>6, <1>7, <2>1, <3>1, ConsoleBlanks DEF NothingOlder
    <3>2. CASE g # awaited
      <4>1. awaited \in Gets => get'[awaited] = get[awaited]
        BY <1>2, <3>2
      <4>2. route \in Incidents => awaited \in Gets
        BY DEF ConsoleInv, ConsoleTypeOK, GetsAwaited
      <4>3. \A h \in Gets : h = awaited => get'[h] = get[h]
        BY <4>1
      <4> QED
        BY <1>1, <1>3, <1>6, <1>7, <2>1, <3>2, <4>1, <4>2, <4>3 DEF NothingOlder
    <3> QED
      BY <3>1, <3>2
  <2>4. FormIsOwn' /\ DraftsAreOwn'
    BY <1>1, <2>1 DEF FormIsOwn, DraftsAreOwn
  <2> QED
    BY <2>2, <2>3, <2>4
<1> QED
  BY <1>2, <1>8, <1>10, <1>11, <1>12 DEF ConsoleInv

(* What an answer, shown, does to the form.                                *)
LEMMA RenderFormTypes ==
  ASSUME ConsoleInv, NEW shown \in Shown, shown.id \in Incidents, RenderForm(shown)
  PROVE  /\ form' \in Form /\ draft' \in [Incidents -> Incidents \cup {Blank, None}]
         /\ parked' \in Incidents \cup {Feed, None}
<1>1. /\ form \in Form /\ draft \in [Incidents -> Incidents \cup {Blank, None}]
      /\ parked \in Incidents \cup {Feed, None}
  BY DEF ConsoleInv, ConsoleTypeOK
<1>2. form.text \in Incidents \cup {Blank} /\ form.on \in BOOLEAN
  BY <1>1 DEF Form
<1>3. CASE shown.rank # Resolved
  <2>1. form' = NoForm /\ draft' = draft /\ parked' = None
    BY <1>3 DEF RenderForm
  <2> QED
    BY <1>1, <2>1, ConsoleBlanks
<1>4. CASE shown.rank = Resolved /\ form.on
  <2>1. /\ form' = form /\ parked' = parked
        /\ draft' = IF form.submitted THEN draft ELSE [draft EXCEPT ![shown.id] = form.text]
    BY <1>4 DEF RenderForm
  <2> QED
    BY <1>1, <1>2, <2>1
<1>5. CASE shown.rank = Resolved /\ ~ form.on
  <2> DEFINE text == IF draft[shown.id] = None THEN Blank ELSE draft[shown.id]
  <2>1. PICK soon \in BOOLEAN :
             /\ form' = [NoForm EXCEPT !.on = TRUE, !.text = text,
                           !.dirty = text # Blank \/ (soon /\ draft[shown.id] # None)]
             /\ draft' = [draft EXCEPT ![shown.id] = text]
             /\ parked' = parked
    BY <1>5, Zenon DEF RenderForm
  <2> DEFINE e == text # Blank \/ (soon /\ draft[shown.id] # None)
  <2>3. text \in Incidents \cup {Blank}
    BY <1>1
  <2>4. e \in BOOLEAN
    BY Zenon
  <2>5. form' = [NoForm EXCEPT !.on = TRUE, !.text = text, !.dirty = e]
    BY <2>1
  <2> HIDE DEF e, text
  <2>6. form' \in Form
    BY <2>3, <2>4, <2>5 DEF Form, NoForm
  <2> QED
    BY <1>1, <2>1, <2>3, <2>6
<1> QED
  BY <1>2, <1>3, <1>4, <1>5

LEMMA RenderFormOwn ==
  ASSUME ConsoleInv, FormIsOwn, DraftsAreOwn, route \in Incidents,
         NEW shown \in Shown, shown.id = route, RenderForm(shown),
         UNCHANGED <<actual, route, typed>>
  PROVE  FormIsOwn' /\ DraftsAreOwn'
<1>1. draft \in [Incidents -> Incidents \cup {Blank, None}]
  BY DEF ConsoleInv, ConsoleTypeOK
<1>2. /\ form.on => /\ form.text \in {Blank, route}
                    /\ typed[route] /\ actual[route] # Closed => form.text = route
      /\ form.submitted => actual[route] = Closed
  BY DEF FormIsOwn
<1>3. \A i \in Incidents : /\ draft[i] \in {None, Blank, i}
                           /\ typed[i] /\ actual[i] # Closed => draft[i] = i
  BY DEF DraftsAreOwn
<1>4. CASE shown.rank # Resolved
  <2>1. form' = NoForm /\ draft' = draft
    BY <1>4 DEF RenderForm
  <2> QED
    BY <1>3, <2>1, ConsoleBlanks DEF FormIsOwn, DraftsAreOwn
<1>5. CASE shown.rank = Resolved /\ form.on
  <2>1. /\ form' = form
        /\ draft' = IF form.submitted THEN draft ELSE [draft EXCEPT ![shown.id] = form.text]
    BY <1>5 DEF RenderForm
  <2>2. FormIsOwn'
    BY <1>2, <2>1 DEF FormIsOwn
  <2>3. CASE form.submitted
    BY <1>3, <2>1, <2>2, <2>3 DEF DraftsAreOwn
  <2>4. CASE ~ form.submitted
    <3>1. draft' = [draft EXCEPT ![route] = form.text]
      BY <2>1, <2>4
    <3>2. draft'[route] = form.text /\ \A i \in Incidents : i # route => draft'[i] = draft[i]
      BY <1>1, <3>1
    <3>3. DraftsAreOwn'
      BY <1>2, <1>3, <1>5, <3>2 DEF DraftsAreOwn
    <3> QED
      BY <2>2, <3>3
  <2> QED
    BY <2>3, <2>4
<1>6. CASE shown.rank = Resolved /\ ~ form.on
  <2> DEFINE text == IF draft[route] = None THEN Blank ELSE draft[route]
  <2>1. PICK soon \in BOOLEAN :
             /\ form' = [NoForm EXCEPT !.on = TRUE, !.text = text,
                           !.dirty = text # Blank \/ (soon /\ draft[route] # None)]
             /\ draft' = [draft EXCEPT ![route] = text]
    BY <1>6, Zenon DEF RenderForm
  <2> DEFINE e == text # Blank \/ (soon /\ draft[route] # None)
  <2>2. form' = [NoForm EXCEPT !.on = TRUE, !.text = text, !.dirty = e]
    BY <2>1
  <2>3. /\ text \in {Blank, route}
        /\ typed[route] /\ actual[route] # Closed => text = route
    BY <1>3, ConsoleBlanks
  <2>4. draft' = [draft EXCEPT ![route] = text]
    BY <2>1
  <2> HIDE DEF e, text
  <2> HIDE <2>1
  <2>5. form'.text = text /\ form'.submitted = FALSE
    BY <2>2 DEF NoForm
  <2>6. draft'[route] = text /\ \A i \in Incidents : i # route => draft'[i] = draft[i]
    BY <1>1, <2>4
  <2>7. FormIsOwn'
    BY <2>3, <2>5 DEF FormIsOwn
  <2>8. DraftsAreOwn'
    BY <1>3, <2>3, <2>6 DEF DraftsAreOwn
  <2> QED
    BY <2>7, <2>8
<1> QED
  BY <1>4, <1>5, <1>6

LEMMA GetArrivesKeeps ==
  ASSUME ConsoleInv, NEW g \in Gets, GetArrives(g)
  PROVE  ConsoleInv'
<1> USE DEF boundVars
<1>1. /\ get[g].at = "body" /\ get' = [get EXCEPT ![g] = FreeGet]
      /\ UNCHANGED <<actual, route, from, awaited, post, typed, settled, jumped, boundVars>>
  BY DEF GetArrives
<1>2. /\ get' \in [Gets -> Get] /\ get'[g] = FreeGet
      /\ \A h \in Gets : h # g => get'[h] = get[h]
      /\ GetsAwaited'
  BY <1>1, Freed
<1>3. get[g] \in Get /\ get[g].aborted \in BOOLEAN
  BY DEF ConsoleInv, ConsoleTypeOK, Get
<1>4. ClosedWhenDone'
  BY <1>1 DEF ConsoleInv, ClosedWhenDone
<1>5. OwnPage /\ detail'.id = route => OwnPage'
  BY <1>1, <1>2, ConsoleBlanks DEF OwnPage
<1>6. CASE get[g].aborted
  <2>1. UNCHANGED <<detail, detailError, form, draft, parked>>
    BY <1>6 DEF GetArrives, Unaborted
  <2>2. ConsoleTypeOK'
    BY <1>1, <1>2, <2>1 DEF ConsoleInv, ConsoleTypeOK
  <2>3. PageIsThere'
    BY <1>1, <2>1 DEF ConsoleInv, PageIsThere
  <2>4. g # awaited /\ \A h \in Gets : h = awaited => get'[h] = get[h]
    BY <1>2, <1>6 DEF ConsoleInv, GetsAwaited
  <2>5. route \in Incidents => awaited \in Gets
    BY DEF ConsoleInv, ConsoleTypeOK, GetsAwaited
  <2>6. ASSUME ~ jumped' PROVE OwnPage' /\ NothingOlder' /\ FormIsOwn' /\ DraftsAreOwn'
    <3>1. OwnPage /\ NothingOlder /\ FormIsOwn /\ DraftsAreOwn
      BY <1>1, <2>6 DEF ConsoleInv
    <3>2. OwnPage'
      BY <1>1, <2>1, <2>4, <3>1 DEF OwnPage
    <3>3. NothingOlder'
      BY <1>1, <2>1, <2>4, <2>5, <3>1 DEF NothingOlder
    <3>4. FormIsOwn' /\ DraftsAreOwn'
      BY <1>1, <2>1, <3>1 DEF FormIsOwn, DraftsAreOwn
    <3> QED
      BY <3>2, <3>3, <3>4
  <2> QED
    BY <1>2, <1>4, <2>2, <2>3, <2>6 DEF ConsoleInv
<1>7. CASE ~ get[g].aborted
  <2>1. /\ detail' = [id |-> get[g].id, rank |-> get[g].rank] /\ detailError' = FALSE
        /\ RenderForm(detail')
    BY <1>7 DEF GetArrives, Unaborted
  <2>2. detail' \in Shown /\ detail'.id = get[g].id /\ detail'.rank = get[g].rank
        /\ detail'.id \in Incidents
    BY <1>3, <2>1 DEF Shown, Get
  <2>3. /\ form' \in Form /\ draft' \in [Incidents -> Incidents \cup {Blank, None}]
        /\ parked' \in Incidents \cup {Feed, None}
    BY <2>1, <2>2, RenderFormTypes
  <2>4. g = awaited
    BY <1>1, <1>7 DEF ConsoleInv, GetsAwaited
  <2>5. route \in Incidents
    BY <2>4, ConsoleBlanks DEF ConsoleInv, GetsAwaited
  <2>6. ConsoleTypeOK'
    <3>1. {detailError', jumped'} \subseteq BOOLEAN
      BY <1>1, <2>1, Zenon DEF ConsoleInv, ConsoleTypeOK
    <3> QED
      BY <1>1, <1>2, <2>2, <2>3, <3>1 DEF ConsoleInv, ConsoleTypeOK
  <2>7. PageIsThere'
    BY <1>1, <2>1, <2>2, <2>5 DEF ConsoleInv, PageIsThere
  <2>8. ASSUME ~ jumped' PROVE OwnPage' /\ NothingOlder' /\ FormIsOwn' /\ DraftsAreOwn'
    <3>1. OwnPage /\ NothingOlder /\ FormIsOwn /\ DraftsAreOwn
      BY <1>1, <2>8 DEF ConsoleInv
    <3>2. detail'.id = route /\ detail'.rank >= settled
      BY <1>1, <2>2, <2>4, <3>1 DEF OwnPage, NothingOlder
    <3>3. OwnPage'
      BY <1>5, <3>1, <3>2
    <3>4. NothingOlder'
      BY <1>1, <1>2, <2>4, <3>1, <3>2, ConsoleBlanks DEF NothingOlder
    <3>5. FormIsOwn' /\ DraftsAreOwn'
      BY <1>1, <2>1, <2>2, <2>5, <3>1, <3>2, RenderFormOwn
    <3> QED
      BY <3>3, <3>4, <3>5
  <2> QED
    BY <1>2, <1>4, <2>6, <2>7, <2>8 DEF ConsoleInv
<1> QED
  BY <1>6, <1>7

(* Moves and submissions. A form is of a page, and a page of a route.      *)
LEMMA FormHasAPage ==
  ConsoleInv /\ form.on => route \in Incidents /\ detail.id \in Incidents /\ detail # NoDetail
BY ConsoleBlanks DEF ConsoleInv, PageIsThere

LEMMA TypeKeeps ==
  ASSUME ConsoleInv, Type
  PROVE  ConsoleInv'
<1> USE DEF tabVars, pageVars, boundVars
<1>1. /\ form.on /\ form' = [form EXCEPT !.text = detail.id, !.dirty = TRUE]
      /\ draft' = IF form.submitted THEN draft ELSE [draft EXCEPT ![detail.id] = detail.id]
      /\ typed' = [typed EXCEPT ![detail.id] = TRUE]
      /\ UNCHANGED <<actual, route, from, parked, detail, detailError, get, awaited, post,
                     settled, jumped, visits, others, mishaps>>
  BY DEF Type
<1>2. route \in Incidents /\ detail.id \in Incidents /\ detail # NoDetail
  BY <1>1, FormHasAPage
<1>3. /\ form \in Form /\ draft \in [Incidents -> Incidents \cup {Blank, None}]
      /\ typed \in [Incidents -> BOOLEAN]
  BY DEF ConsoleInv, ConsoleTypeOK
<1>4. /\ form' \in Form /\ form'.text = detail.id /\ form'.submitted = form.submitted
      /\ form'.on = form.on
  BY <1>1, <1>2, <1>3 DEF Form
<1>5. draft' \in [Incidents -> Incidents \cup {Blank, None}]
  BY <1>1, <1>2, <1>3
<1>6. typed' \in [Incidents -> BOOLEAN] /\ \A i \in Incidents : i # detail.id => typed'[i] = typed[i]
  BY <1>1, <1>2, <1>3
<1>7. ConsoleTypeOK'
  BY <1>1, <1>4, <1>5, <1>6 DEF ConsoleInv, ConsoleTypeOK
<1>8. GetsAwaited' /\ PageIsThere' /\ ClosedWhenDone'
  BY <1>1, <1>2 DEF ConsoleInv, GetsAwaited, PageIsThere, ClosedWhenDone
<1>9. ASSUME ~ jumped' PROVE OwnPage' /\ NothingOlder' /\ FormIsOwn' /\ DraftsAreOwn'
  <2>1. OwnPage /\ NothingOlder /\ FormIsOwn /\ DraftsAreOwn
    BY <1>1, <1>9 DEF ConsoleInv
  <2>2. detail.id = route
    BY <1>2, <2>1 DEF OwnPage
  <2>3. OwnPage' /\ NothingOlder'
    BY <1>1, <2>1 DEF OwnPage, NothingOlder
  <2>4. FormIsOwn'
    BY <1>1, <1>4, <2>1, <2>2 DEF FormIsOwn
  <2>5. DraftsAreOwn'
    <3>1. ASSUME NEW i \in Incidents
          PROVE  /\ draft'[i] \in {None, Blank, i}
                 /\ typed'[i] /\ actual[i] # Closed => draft'[i] = i
      <4>1. CASE i # detail.id
        BY <1>1, <1>2, <1>3, <1>6, <2>1, <4>1 DEF DraftsAreOwn
      <4>2. CASE i = detail.id /\ form.submitted
        BY <1>1, <2>1, <2>2, <4>2 DEF DraftsAreOwn, FormIsOwn
      <4>3. CASE i = detail.id /\ ~ form.submitted
        BY <1>1, <1>2, <1>3, <4>3
      <4> QED
        BY <4>1, <4>2, <4>3
    <3> QED
      BY <1>1, <3>1 DEF DraftsAreOwn
  <2> QED
    BY <2>3, <2>4, <2>5
<1> QED
  BY <1>7, <1>8, <1>9 DEF ConsoleInv

LEMMA SendKeeps ==
  ASSUME ConsoleInv, NEW p \in Posts, NEW target \in {Investigating, Resolved, Closed},
         NEW ofForm \in BOOLEAN, detail # NoDetail, SendPost(p, target, ofForm),
         UNCHANGED <<route, detail>>
  PROVE  /\ post' \in [Posts -> Post]
         /\ \A q \in Posts : post'[q].page # None => route \in Incidents
         /\ actual' = actual => ClosedWhenDone'
         /\ \A q \in Posts : OwnPage => /\ post'[q].page # None => /\ post'[q].page = route
                                                                   /\ post'[q].id = route
                                        /\ post'[q].form => post'[q].id = route
<1> DEFINE new == [at |-> "asked", id |-> detail.id, target |-> target, page |-> route,
                   form |-> ofForm]
<1>1. route \in Incidents /\ detail.id \in Incidents
  BY DEF ConsoleInv, PageIsThere
<1>2. /\ new \in Post /\ new.at = "asked" /\ new.id = detail.id /\ new.page = route
  BY <1>1 DEF Post
<1>3. post' = [post EXCEPT ![p] = new]
  BY DEF SendPost
<1> HIDE DEF new
<1>4. post \in [Posts -> Post]
  BY DEF ConsoleInv, ConsoleTypeOK
<1>5. /\ post' \in [Posts -> Post] /\ post'[p] = new
      /\ \A q \in Posts : q # p => post'[q] = post[q]
  BY <1>2, <1>3, <1>4
<1>6. actual' = actual => ClosedWhenDone'
  BY <1>2, <1>5 DEF ConsoleInv, ClosedWhenDone
<1>7. \A q \in Posts : post'[q].page # None => route \in Incidents
  BY <1>1
<1>8. ASSUME NEW q \in Posts, OwnPage
      PROVE  /\ post'[q].page # None => post'[q].page = route /\ post'[q].id = route
             /\ post'[q].form => post'[q].id = route
  BY <1>2, <1>5, <1>8 DEF OwnPage
<1> QED
  BY <1>5, <1>6, <1>7, <1>8

LEMMA ClickKeeps ==
  ASSUME ConsoleInv, NEW p \in Posts, Click(p)
  PROVE  ConsoleInv'
<1> USE DEF tabVars, pageVars, formVars, boundVars
<1>1. /\ detail # NoDetail /\ detail.rank + 1 \in {Investigating, Resolved}
      /\ SendPost(p, detail.rank + 1, FALSE)
      /\ UNCHANGED <<actual, route, from, parked, detail, detailError, get, awaited, form, draft,
                     typed, settled, jumped, visits, others, mishaps>>
  BY DEF Click
<1>2. /\ post' \in [Posts -> Post] /\ ClosedWhenDone'
      /\ \A q \in Posts : post'[q].page # None => route \in Incidents
      /\ \A q \in Posts : OwnPage => /\ post'[q].page # None => /\ post'[q].page = route
                                                                /\ post'[q].id = route
                                     /\ post'[q].form => post'[q].id = route
  <2> DEFINE next == detail.rank + 1
  <2>1. next \in {Investigating, Resolved, Closed} /\ SendPost(p, next, FALSE)
    BY <1>1
  <2> HIDE DEF next
  <2> QED
    BY <1>1, <2>1, SendKeeps
<1>3. ConsoleTypeOK'
  BY <1>1, <1>2 DEF ConsoleInv, ConsoleTypeOK
<1>4. GetsAwaited' /\ PageIsThere'
  BY <1>1, <1>2 DEF ConsoleInv, GetsAwaited, PageIsThere
<1>5. ASSUME ~ jumped' PROVE OwnPage' /\ NothingOlder' /\ FormIsOwn' /\ DraftsAreOwn'
  <2>1. OwnPage /\ NothingOlder /\ FormIsOwn /\ DraftsAreOwn
    BY <1>1, <1>5 DEF ConsoleInv
  <2>2. OwnPage'
    BY <1>1, <1>2, <2>1 DEF OwnPage
  <2>3. NothingOlder' /\ FormIsOwn' /\ DraftsAreOwn'
    BY <1>1, <2>1 DEF NothingOlder, FormIsOwn, DraftsAreOwn
  <2> QED
    BY <2>2, <2>3
<1> QED
  BY <1>2, <1>3, <1>4, <1>5 DEF ConsoleInv

LEMMA SubmitKeeps ==
  ASSUME ConsoleInv, NEW p \in Posts, Submit(p)
  PROVE  ConsoleInv'
<1> USE DEF tabVars, pageVars, boundVars
<1>1. /\ form.on /\ SendPost(p, Closed, TRUE) /\ form' = [form EXCEPT !.submitting = TRUE]
      /\ UNCHANGED <<actual, route, from, parked, detail, detailError, get, awaited, draft,
                     typed, settled, jumped, visits, others, mishaps>>
  BY DEF Submit
<1>2. detail # NoDetail
  BY <1>1, FormHasAPage
<1>3. /\ post' \in [Posts -> Post] /\ ClosedWhenDone'
      /\ \A q \in Posts : post'[q].page # None => route \in Incidents
      /\ \A q \in Posts : OwnPage => /\ post'[q].page # None => /\ post'[q].page = route
                                                                /\ post'[q].id = route
                                     /\ post'[q].form => post'[q].id = route
  BY <1>1, <1>2, SendKeeps
<1>4. /\ form' \in Form /\ form'.text = form.text /\ form'.submitted = form.submitted
      /\ form'.on = form.on
  BY <1>1 DEF ConsoleInv, ConsoleTypeOK, Form
<1>5. ConsoleTypeOK'
  BY <1>1, <1>3, <1>4 DEF ConsoleInv, ConsoleTypeOK
<1>6. GetsAwaited' /\ PageIsThere'
  BY <1>1, <1>3, <1>4 DEF ConsoleInv, GetsAwaited, PageIsThere
<1>7. ASSUME ~ jumped' PROVE OwnPage' /\ NothingOlder' /\ FormIsOwn' /\ DraftsAreOwn'
  <2>1. OwnPage /\ NothingOlder /\ FormIsOwn /\ DraftsAreOwn
    BY <1>1, <1>7 DEF ConsoleInv
  <2>2. OwnPage'
    BY <1>1, <1>3, <2>1 DEF OwnPage
  <2>3. NothingOlder' /\ FormIsOwn' /\ DraftsAreOwn'
    BY <1>1, <1>4, <2>1 DEF NothingOlder, FormIsOwn, DraftsAreOwn
  <2> QED
    BY <2>2, <2>3
<1> QED
  BY <1>3, <1>5, <1>6, <1>7 DEF ConsoleInv

LEMMA DecideKeeps ==
  ASSUME ConsoleInv, NEW p \in Posts, Decide(p)
  PROVE  ConsoleInv'
<1> USE DEF tabVars, pageVars, formVars
<1>1. /\ post[p].at = "asked"
      /\ UNCHANGED <<route, from, parked, detail, detailError, get, awaited, form, draft, typed,
                     settled, jumped, visits, others>>
  BY DEF Decide
<1>2. post[p] \in Post /\ post \in [Posts -> Post]
  BY DEF ConsoleInv, ConsoleTypeOK
<1>3. PICK end \in {"done", "refused", "invalid"} : post' = [post EXCEPT ![p].at = end]
  BY DEF Decide
<1>4. /\ post' \in [Posts -> Post]
      /\ post'[p].at = end /\ post'[p].id = post[p].id /\ post'[p].page = post[p].page
      /\ post'[p].form = post[p].form /\ post'[p].target = post[p].target
      /\ \A q \in Posts : q # p => post'[q] = post[q]
  BY <1>2, <1>3 DEF Post
<1>5. mishaps' \in Nat
  BY DEF Decide, Mishap, ConsoleInv, ConsoleTypeOK
<1>6. /\ actual' \in [Incidents -> 0..Closed]
      /\ \A j \in Incidents : actual[j] = Closed => actual'[j] = Closed
      /\ end = "done" /\ post[p].target = Closed => actual'[post[p].id] = Closed
      /\ ~ jumped' => NothingOlder' /\ FormIsOwn' /\ DraftsAreOwn'
  <2>1. CASE actual' = actual /\ end # "done"
    <3>1. (NothingOlder <=> NothingOlder') /\ (FormIsOwn <=> FormIsOwn')
          /\ (DraftsAreOwn <=> DraftsAreOwn')
      BY <1>1, <2>1 DEF NothingOlder, FormIsOwn, DraftsAreOwn
    <3> QED
      BY <1>1, <2>1, <3>1 DEF ConsoleInv, ConsoleTypeOK
  <2>2. CASE /\ post[p].target = actual[post[p].id] + 1
             /\ actual' = [actual EXCEPT ![post[p].id] = @ + 1]
    <3> DEFINE i == post[p].id
    <3>1. i \in Incidents /\ post[p].target \in {1, 2, 3} /\ actual \in [Incidents -> 0..3]
      BY <1>2 DEF Post, Investigating, Resolved, Closed, ConsoleInv, ConsoleTypeOK
    <3>2. actual' = [actual EXCEPT ![i] = actual[i] + 1] /\ post[p].target = actual[i] + 1
      BY <2>2
    <3> HIDE DEF i
    <3>3. actual[i] < Closed
      BY <3>1, <3>2 DEF Closed
    <3>4. /\ actual' \in [Incidents -> 0..Closed]
          /\ \A j \in Incidents : actual[j] = Closed => actual'[j] = Closed
          /\ ~ jumped' => NothingOlder' /\ FormIsOwn' /\ DraftsAreOwn'
      BY <1>1, <3>1, <3>2, <3>3, MovesKeepThePage
    <3>5. post[p].target = Closed => actual'[i] = Closed
      BY <3>1, <3>2
    <3> QED
      BY <3>4, <3>5 DEF i
  <2>3. \/ actual' = actual /\ end # "done"
        \/ /\ post[p].target = actual[post[p].id] + 1
           /\ actual' = [actual EXCEPT ![post[p].id] = @ + 1]
    <3>1. \A e : [post EXCEPT ![p].at = e][p].at = e
      BY <1>2 DEF Post
    <3>2. CASE post' = [post EXCEPT ![p].at = "done"]
      BY <1>1, <3>1, <3>2 DEF Decide
    <3>3. CASE post' # [post EXCEPT ![p].at = "done"]
      BY <1>3, <1>4, <3>3 DEF Decide
    <3> QED
      BY <3>2, <3>3
  <2> QED
    BY <2>1, <2>2, <2>3
<1>7. ConsoleTypeOK'
  BY <1>1, <1>4, <1>5, <1>6 DEF ConsoleInv, ConsoleTypeOK
<1>8. GetsAwaited' /\ PageIsThere'
  BY <1>1, <1>4 DEF ConsoleInv, GetsAwaited, PageIsThere
<1>9. ClosedWhenDone'
  <2>1. \A q \in Posts : post[q].id \in Incidents
    BY <1>2 DEF Post
  <2> QED
    BY <1>4, <1>6, <2>1 DEF ConsoleInv, ClosedWhenDone
<1>10. OwnPage => OwnPage'
  BY <1>1, <1>4 DEF OwnPage
<1> QED
  BY <1>1, <1>6, <1>7, <1>8, <1>9, <1>10 DEF ConsoleInv

(* A request that is over.                                                 *)
LEMMA PostFreed ==
  ASSUME ConsoleInv, NEW p \in Posts, post' = [post EXCEPT ![p] = FreePost],
         actual' = actual, route' = route
  PROVE  /\ post' \in [Posts -> Post]
         /\ \A q \in Posts : post'[q].page # None => route' \in Incidents
         /\ ClosedWhenDone'
         /\ \A q \in Posts : OwnPage => /\ post'[q].page # None => /\ post'[q].page = route
                                                                   /\ post'[q].id = route
                                        /\ post'[q].form => post'[q].id = route
<1>1. post \in [Posts -> Post]
  BY DEF ConsoleInv, ConsoleTypeOK
<1>2. /\ post' \in [Posts -> Post] /\ post'[p] = FreePost
      /\ \A q \in Posts : q # p => post'[q] = post[q]
  BY <1>1, ConsoleBlanks
<1>3. \A q \in Posts : post'[q].page # None => route' \in Incidents
  BY <1>2, ConsoleBlanks DEF ConsoleInv, PageIsThere
<1>4. ClosedWhenDone'
  BY <1>2, ConsoleBlanks DEF ConsoleInv, ClosedWhenDone
<1>5. ASSUME NEW q \in Posts, OwnPage
      PROVE  /\ post'[q].page # None => post'[q].page = route /\ post'[q].id = route
             /\ post'[q].form => post'[q].id = route
  BY <1>2, <1>5, ConsoleBlanks DEF OwnPage
<1> QED
  BY <1>2, <1>3, <1>4, <1>5

LEMMA PostFailsKeeps ==
  ASSUME ConsoleInv, NEW p \in Posts, PostFails(p)
  PROVE  ConsoleInv'
<1> USE DEF tabVars, pageVars
<1>1. /\ post' = [post EXCEPT ![p] = FreePost]
      /\ form' = IF post[p].form THEN [form EXCEPT !.submitting = FALSE] ELSE form
      /\ UNCHANGED <<actual, route, from, parked, detail, detailError, get, awaited, draft,
                     typed, settled, jumped, visits, others>>
  BY DEF PostFails
<1>2. mishaps' \in Nat
  BY DEF PostFails, Mishap, ConsoleInv, ConsoleTypeOK
<1>3. /\ post' \in [Posts -> Post] /\ ClosedWhenDone'
      /\ \A q \in Posts : post'[q].page # None => route' \in Incidents
      /\ \A q \in Posts : OwnPage => /\ post'[q].page # None => /\ post'[q].page = route
                                                                /\ post'[q].id = route
                                     /\ post'[q].form => post'[q].id = route
  BY <1>1, PostFreed
<1>4. /\ form' \in Form /\ form'.text = form.text /\ form'.submitted = form.submitted
      /\ form'.on = form.on
  <2>1. form \in Form
    BY DEF ConsoleInv, ConsoleTypeOK
  <2>2. CASE post[p].form
    BY <1>1, <2>1, <2>2 DEF Form
  <2>3. CASE ~ post[p].form
    BY <1>1, <2>1, <2>3
  <2> QED
    BY <2>2, <2>3
<1>5. ConsoleTypeOK'
  BY <1>1, <1>2, <1>3, <1>4 DEF ConsoleInv, ConsoleTypeOK
<1>6. GetsAwaited' /\ PageIsThere'
  BY <1>1, <1>3, <1>4 DEF ConsoleInv, GetsAwaited, PageIsThere
<1>7. ASSUME ~ jumped' PROVE OwnPage' /\ NothingOlder' /\ FormIsOwn' /\ DraftsAreOwn'
  <2>1. OwnPage /\ NothingOlder /\ FormIsOwn /\ DraftsAreOwn
    BY <1>1, <1>7 DEF ConsoleInv
  <2>2. OwnPage'
    BY <1>1, <1>3, <2>1 DEF OwnPage
  <2>3. NothingOlder' /\ FormIsOwn' /\ DraftsAreOwn'
    BY <1>1, <1>4, <2>1 DEF NothingOlder, FormIsOwn, DraftsAreOwn
  <2> QED
    BY <2>2, <2>3
<1> QED
  BY <1>3, <1>5, <1>6, <1>7 DEF ConsoleInv

LEMMA AnsweredKeeps ==
  ASSUME ConsoleInv, NEW p \in Posts, Answered(p)
  PROVE  ConsoleInv'
<1> USE DEF tabVars, boundVars
<1>1. /\ post[p].at \in {"done", "refused", "invalid"}
      /\ post' = [post EXCEPT ![p] = FreePost]
      /\ HandleRefresh(p)
      /\ UNCHANGED <<actual, route, from, parked, detail, detailError, typed, jumped,
                     visits, others, mishaps>>
  BY DEF Answered
<1>2. /\ draft' = (IF Accepted(p) THEN [draft EXCEPT ![post[p].id] = None] ELSE draft)
      /\ form' = (IF post[p].form
                  THEN [form EXCEPT !.submitting = FALSE, !.submitted = @ \/ Accepted(p)]
                  ELSE form)
      /\ settled' = IF /\ post[p].at \in {"done", "refused"}
                       /\ post[p].page # None /\ post[p].id = route
                    THEN actual[route] ELSE settled
  BY DEF Answered
<1>3. post[p] \in Post /\ post[p].id \in Incidents /\ post[p].page \in Incidents \cup {None}
  BY DEF ConsoleInv, ConsoleTypeOK, Post
<1>4. /\ post' \in [Posts -> Post] /\ ClosedWhenDone'
      /\ \A q \in Posts : post'[q].page # None => route' \in Incidents
      /\ \A q \in Posts : OwnPage => /\ post'[q].page # None => /\ post'[q].page = route
                                                                /\ post'[q].id = route
                                     /\ post'[q].form => post'[q].id = route
  BY <1>1, PostFreed
<1>5. Accepted(p) => actual[post[p].id] = Closed
  BY DEF Accepted, ConsoleInv, ClosedWhenDone
<1>6. /\ form' \in Form /\ form'.text = form.text /\ form'.on = form.on
      /\ form'.submitted => form.submitted \/ (post[p].form /\ Accepted(p))
  <2>1. form \in Form
    BY DEF ConsoleInv, ConsoleTypeOK
  <2>2. CASE post[p].form
    <3> DEFINE e == form.submitted \/ Accepted(p)
    <3>1. e \in BOOLEAN
      BY Zenon
    <3>2. form' = [form EXCEPT !.submitting = FALSE, !.submitted = e]
      BY <1>2, <2>1, <2>2 DEF Form
    <3>3. e <=> form.submitted \/ Accepted(p)
      OBVIOUS
    <3> HIDE DEF e
    <3>4. /\ form' \in Form /\ form'.text = form.text /\ form'.on = form.on
          /\ form'.submitted = e
      BY <2>1, <3>1, <3>2 DEF Form
    <3> QED
      BY <2>2, <3>3, <3>4
  <2>3. CASE ~ post[p].form
    BY <1>2, <2>1, <2>3
  <2> QED
    BY <2>2, <2>3
<1>7. /\ draft' \in [Incidents -> Incidents \cup {Blank, None}]
      /\ \A i \in Incidents : draft'[i] = draft[i] \/ (draft'[i] = None /\ actual[i] = Closed)
  <2>1. draft \in [Incidents -> Incidents \cup {Blank, None}]
    BY DEF ConsoleInv, ConsoleTypeOK
  <2> QED
    BY <1>2, <1>3, <1>5, <2>1
<1>8. settled' \in 0..Closed
  BY <1>2, <1>3 DEF ConsoleInv, ConsoleTypeOK
<1>9. \/ /\ Refreshed(p) /\ post[p].page # None
         /\ GetsInOrder' /\ awaited' \in Gets /\ get'[awaited'].at = "asked"
         /\ get'[awaited'].id = post[p].page /\ route \in Incidents
      \/ ~ (Refreshed(p) /\ post[p].page # None) /\ UNCHANGED <<get, awaited>>
  <2>1. CASE Refreshed(p) /\ post[p].page # None
    <3>1. FetchDetail(post[p].page) /\ post[p].page \in Incidents
      BY <1>1, <1>3, <2>1 DEF HandleRefresh
    <3>2. route \in Incidents
      BY <2>1 DEF ConsoleInv, PageIsThere
    <3>3. ConsoleInv => GetsInOrder
      BY InOrder
    <3>4. /\ GetsInOrder' /\ awaited' \in Gets /\ get'[awaited'].at = "asked"
          /\ get'[awaited'].id = post[p].page
      BY <3>1, <3>3, Fetched
    <3> QED
      BY <2>1, <3>2, <3>4
  <2>2. CASE ~ (Refreshed(p) /\ post[p].page # None)
    BY <1>1, <2>2 DEF HandleRefresh
  <2> QED
    BY <2>1, <2>2
<1>10. /\ get' \in [Gets -> Get] /\ awaited' \in Gets \cup {None}
       /\ GetsAwaited'
  <2>1. CASE UNCHANGED <<get, awaited>>
    BY <1>1, <2>1 DEF ConsoleInv, ConsoleTypeOK, GetsAwaited
  <2>2. CASE GetsInOrder' /\ awaited' \in Gets /\ route \in Incidents
    BY <1>1, <2>2, ConsoleBlanks DEF GetsInOrder, GetsAwaited
  <2> QED
    BY <1>9, <2>1, <2>2
<1>11. ConsoleTypeOK'
  BY <1>1, <1>4, <1>6, <1>7, <1>8, <1>10 DEF ConsoleInv, ConsoleTypeOK
<1>12. PageIsThere'
  BY <1>1, <1>4, <1>6 DEF ConsoleInv, PageIsThere
<1>13. ASSUME ~ jumped' PROVE OwnPage' /\ NothingOlder' /\ FormIsOwn' /\ DraftsAreOwn'
  <2>1. OwnPage /\ NothingOlder /\ FormIsOwn /\ DraftsAreOwn
    BY <1>1, <1>13 DEF ConsoleInv
  <2>2. /\ post[p].page # None => post[p].page = route /\ post[p].id = route
        /\ post[p].form => post[p].id = route
    BY <2>1 DEF OwnPage
  <2>3. \A g \in Gets : get'[g].at # "idle" /\ g = awaited' => get'[g].id = route
    BY <1>9, <2>1, <2>2 DEF OwnPage
  <2>4. OwnPage'
    BY <1>1, <1>4, <2>1, <2>3 DEF OwnPage
  <2>5. NothingOlder'
    <3>1. CASE Refreshed(p) /\ post[p].page # None
      <4>1. settled' = actual[route] /\ route \in Incidents
        BY <1>2, <1>9, <2>2, <3>1 DEF Refreshed
      <4>2. settled' <= actual[route]
        BY <4>1 DEF ConsoleInv, ConsoleTypeOK, Closed
      <4> QED
        BY <1>1, <1>9, <3>1, <4>1, <4>2 DEF NothingOlder
    <3>2. CASE ~ (Refreshed(p) /\ post[p].page # None)
      <4>1. settled' = settled /\ UNCHANGED <<get, awaited>>
        BY <1>2, <1>9, <3>2 DEF Refreshed
      <4> QED
        BY <1>1, <2>1, <4>1 DEF NothingOlder
    <3> QED
      BY <3>1, <3>2
  <2>6. FormIsOwn'
    BY <1>1, <1>3, <1>5, <1>6, <2>1, <2>2 DEF FormIsOwn
  <2>7. DraftsAreOwn'
    BY <1>1, <1>7, <2>1 DEF DraftsAreOwn
  <2> QED
    BY <2>4, <2>5, <2>6, <2>7
<1> QED
  BY <1>4, <1>10, <1>11, <1>12, <1>13 DEF ConsoleInv

-----------------------------------------------------------------------------

LEMMA ConsoleStepInv ==
  ASSUME ConsoleInv, ConsoleNext
  PROVE  ConsoleInv'
<1>1. ASSUME NEW i \in Incidents, OthersMove(i) PROVE ConsoleInv'
  BY <1>1, OthersMoveKeeps
<1>2. ASSUME NEW r \in Incidents \cup {Feed}, Navigate(r) PROVE ConsoleInv'
  BY <1>2, NavigateKeeps
<1>3. CASE Proceed
  BY <1>3, ProceedKeeps DEF Proceed
<1>4. CASE Stay
  BY <1>4, ParkingKeeps DEF Stay
<1>5. CASE Unblock
  BY <1>5, ProceedKeeps DEF Unblock
<1>6. CASE Logout
  BY <1>6, LogoutKeeps
<1>7. CASE LogIn
  BY <1>7, LogInKeeps
<1>8. CASE Reload
  BY <1>8, ReloadKeeps
<1>9. CASE RetryDetail
  BY <1>9, RetryDetailKeeps
<1>10. CASE Type
  BY <1>10, TypeKeeps
<1>11. ASSUME NEW g \in Gets, GetServed(g) \/ GetArrives(g) \/ GetFails(g) PROVE ConsoleInv'
  BY <1>11, GetServedKeeps, GetArrivesKeeps, GetFailsKeeps
<1>12. ASSUME NEW p \in Posts,
              Click(p) \/ Submit(p) \/ Decide(p) \/ Answered(p) \/ PostFails(p)
       PROVE  ConsoleInv'
  BY <1>12, ClickKeeps, SubmitKeeps, DecideKeeps, AnsweredKeeps, PostFailsKeeps
<1> QED
  BY <1>1, <1>2, <1>3, <1>4, <1>5, <1>6, <1>7, <1>8, <1>9, <1>10, <1>11, <1>12
     DEF ConsoleNext

LEMMA ConsoleStutters ==
  ASSUME ConsoleInv, UNCHANGED consoleVars
  PROVE  ConsoleInv'
<1> USE DEF consoleVars, tabVars, pageVars, formVars, boundVars
<1>1. ConsoleTypeOK'
  BY DEF ConsoleInv, ConsoleTypeOK
<1>2. GetsAwaited' /\ PageIsThere' /\ ClosedWhenDone'
  BY DEF ConsoleInv, GetsAwaited, PageIsThere, ClosedWhenDone
<1>3. (OwnPage <=> OwnPage') /\ (NothingOlder <=> NothingOlder')
      /\ (FormIsOwn <=> FormIsOwn') /\ (DraftsAreOwn <=> DraftsAreOwn')
  BY DEF OwnPage, NothingOlder, FormIsOwn, DraftsAreOwn
<1> QED
  BY <1>1, <1>2, <1>3 DEF ConsoleInv

LEMMA ConsoleInductive == ConsoleSpec => []ConsoleInv
<1>1. ConsoleInv /\ [ConsoleNext]_consoleVars => ConsoleInv'
  BY ConsoleStepInv, ConsoleStutters
<1> QED
  BY <1>1, ConsoleInitInv, PTL DEF ConsoleSpec

(* "the server's state wins on any disagreement" (useIncidentDetail.ts):   *)
(* whatever the number of a tab's requests, and in any order of their      *)
(* answers, a page at rest shows its own incident, where its last answered *)
(* move left it or further.                                                *)
THEOREM ServerWins == ConsoleSpec => []ServerStateWins
<1>1. ConsoleInv => ServerStateWins
  <2> SUFFICES ASSUME ConsoleInv, AtRest, ~ jumped
               PROVE  detail.id = route /\ detail.rank >= settled
    BY DEF ServerStateWins
  <2>1. NothingOlder
    BY DEF ConsoleInv
  <2>2. route \in Incidents /\ awaited # None /\ ~ detailError /\ get[awaited].at = "idle"
    BY DEF ConsoleInv, GetsAwaited, AtRest
  <2> QED
    BY <2>1, <2>2 DEF NothingOlder
<1> QED
  BY <1>1, ConsoleInductive, PTL

(* "a draft is meant to survive an accidental navigation or reload", and   *)
(* "two incidents' drafts never collide" (rcaDraft.ts): whatever else the  *)
(* tab does, what was written of an incident is kept, as that incident's,  *)
(* until the incident is closed.                                           *)
THEOREM DraftsSurvive == ConsoleSpec => []DraftsKept
<1>1. ConsoleInv => DraftsKept
  BY DEF ConsoleInv, DraftsAreOwn, DraftsKept
<1> QED
  BY <1>1, ConsoleInductive, PTL

-----------------------------------------------------------------------------
(* The views that load rows, and the poller of /health.                    *)

(* A view waits for the last call that it made; the others are aborted.    *)
CallsAwaited ==
  /\ \A c \in Calls : /\ call[c].aborted => call[c].at = "body" /\ c # current
                      /\ call[c].at # "idle" /\ c # current => call[c].aborted
  /\ fetching <=> call[current].at # "idle"
  /\ fetching => call[current].inputs = <<order, page>>

(* Of the poller's runs, the last one asks or waits.                       *)
LastRunPolls ==
  /\ live <= presses + 1
  /\ \A n \in Runs : n # live => loop[n].at \in {"none", "body"}

(* What was found is no older than what is shown.                          *)
FoundIsNewer ==
  /\ healthShown <= status /\ \A n \in Runs : loop[n].found <= status
  /\ loop[live].at = "body" => healthShown <= loop[live].found

LoaderTypes ==
  /\ order \in Orders /\ page \in Page /\ rows \in Inputs \cup {Nothing}
  /\ total \in {0, Total} /\ fetching \in BOOLEAN /\ viewError \in BOOLEAN
  /\ call \in [Calls -> CallState] /\ current \in Calls

PollerTypes ==
  /\ loop \in [Runs -> LoopState] /\ live \in Runs
  /\ status \in Nat /\ fails \in Nat /\ healthShown \in Nat
  /\ presses \in Nat /\ viewErrors \in Nat
  /\ phase \in {"checking", "reachable", "unreachable"}

LoaderInv == LoaderTypes /\ CallsAwaited /\ RowsAreAskedFor

PollerInv == PollerTypes /\ LastRunPolls /\ FoundIsNewer

LEMMA FirstPage == 1 \in Page /\ Resting \in CallState /\ Runs \subseteq Nat /\ 1 \in Runs
<1>1. Total \in Nat /\ PageSize \in Nat \ {0} /\ MaxPresses \in Nat /\ Orders # {}
  BY ViewsAssumption
<1>2. Total \div PageSize \in Int /\ Total \div PageSize >= 0
  BY <1>1, SMTT(30)
<1>3. 1 \in Page
  BY <1>2 DEF Page
<1>4. PICK o \in Orders : TRUE
  BY <1>1
<1>5. <<o, 1>> \in Inputs
  BY <1>3, <1>4 DEF Inputs
<1>6. (CHOOSE i \in Inputs : TRUE) \in Inputs
  BY <1>5
<1> QED
  BY <1>1, <1>3, <1>6 DEF Resting, CallState, Runs

(* What a load does: the call before it is ended or aborted, another waits. *)
LEMMA Loading ==
  ASSUME LoaderTypes, CallsAwaited, NEW o \in Orders, NEW p \in Page, Load(o, p)
  PROVE  /\ call' \in [Calls -> CallState] /\ current' \in Calls
         /\ fetching' = TRUE /\ viewError' = FALSE
         /\ call'[current'].at = "asked" /\ call'[current'].inputs = <<o, p>>
         /\ ~ call'[current'].aborted
         /\ \A c \in Calls : c # current' =>
              /\ call'[c].aborted => call'[c].at = "body"
              /\ call'[c].at # "idle" => call'[c].aborted
<1> DEFINE ended(c) == IF c # current \/ call[c].at = "idle" THEN call[c]
                       ELSE IF call[c].at = "asked" THEN Resting
                       ELSE [call[c] EXCEPT !.aborted = TRUE]
           old == [c \in Calls |-> ended(c)]
           new == [at |-> "asked", inputs |-> <<o, p>>, aborted |-> FALSE]
<1>1. PICK c \in Calls : /\ old[c].at = "idle" /\ call' = [old EXCEPT ![c] = new]
                         /\ current' = c /\ fetching' = TRUE /\ viewError' = FALSE
  BY Zenon DEF Load
<1>2. \A d \in Calls : call[d] \in CallState
  BY DEF LoaderTypes
<1>3. new \in CallState
  BY DEF CallState, Inputs
<1>4. \A d \in Calls : ended(d) \in CallState
  BY <1>2, FirstPage DEF CallState
<1>5. \A d \in Calls : /\ ended(d).aborted => ended(d).at = "body"
                       /\ ended(d).at # "idle" => ended(d).aborted
  <2> SUFFICES ASSUME NEW d \in Calls
               PROVE  /\ ended(d).aborted => ended(d).at = "body"
                      /\ ended(d).at # "idle" => ended(d).aborted
    OBVIOUS
  <2>0. call[d].at \in {"idle", "asked", "body"}
    BY <1>2 DEF CallState
  <2>1. CASE d # current
    BY <2>1 DEF CallsAwaited
  <2>2. CASE d = current /\ call[d].at = "idle"
    BY <2>2 DEF CallsAwaited
  <2>3. CASE d = current /\ call[d].at = "asked"
    BY <2>3 DEF Resting
  <2>4. CASE d = current /\ call[d].at = "body"
    <3>1. ended(d) = [call[d] EXCEPT !.aborted = TRUE] /\ call[d] \in CallState
      BY <1>2, <2>4
    <3> HIDE DEF ended
    <3> QED
      BY <2>4, <3>1 DEF CallState
  <2> QED
    BY <2>0, <2>1, <2>2, <2>3, <2>4
<1>6. /\ DOMAIN old = Calls /\ \A d \in Calls : old[d] = ended(d)
      /\ old \in [Calls -> CallState]
  BY <1>4
<1> HIDE DEF old, ended
<1>7. /\ call' \in [Calls -> CallState] /\ call'[c] = new
      /\ \A d \in Calls : d # c => call'[d] = ended(d)
  BY <1>1, <1>3, <1>6
<1> QED
  BY <1>1, <1>5, <1>7

LEMMA LoaderInit == ViewsInit => LoaderInv
<1> SUFFICES ASSUME ViewsInit PROVE LoaderInv
  OBVIOUS
<1>1. order \in Orders /\ page \in Page /\ <<order, page>> \in Inputs
  BY DEF ViewsInit, Inputs
<1> DEFINE first == [Resting EXCEPT !.at = "asked", !.inputs = <<order, page>>]
<1>2. PICK c \in Calls : current = c /\ call = [d \in Calls |-> IF d = c THEN first ELSE Resting]
  BY Zenon DEF ViewsInit
<1>3. /\ first \in CallState /\ first.at = "asked" /\ first.inputs = <<order, page>>
      /\ ~ first.aborted /\ Resting.at = "idle" /\ ~ Resting.aborted
  BY <1>1, FirstPage DEF Resting, CallState
<1> HIDE DEF first
<1>4. /\ call \in [Calls -> CallState] /\ call[c] = first
      /\ \A d \in Calls : d # c => call[d] = Resting
  BY <1>2, <1>3, FirstPage
<1>5. LoaderTypes
  BY <1>1, <1>2, <1>4 DEF ViewsInit, LoaderTypes
<1>6. CallsAwaited /\ RowsAreAskedFor
  BY <1>2, <1>3, <1>4 DEF ViewsInit, CallsAwaited, RowsAreAskedFor
<1> QED
  BY <1>5, <1>6 DEF LoaderInv

LEMMA LoaderStep == LoaderInv /\ LoaderNext => LoaderInv'
<1> SUFFICES ASSUME LoaderInv, LoaderNext PROVE LoaderInv'
  OBVIOUS
<1>0. LoaderTypes /\ CallsAwaited /\ RowsAreAskedFor
  BY DEF LoaderInv
<1>a. ASSUME NEW o \in Orders, NEW p \in Page, Load(o, p), order' = o, page' = p,
             UNCHANGED <<rows, total>>
      PROVE  LoaderInv'
  <2>1. /\ call' \in [Calls -> CallState] /\ current' \in Calls
        /\ fetching' = TRUE /\ viewError' = FALSE
        /\ call'[current'].at = "asked" /\ call'[current'].inputs = <<o, p>>
        /\ ~ call'[current'].aborted
        /\ \A c \in Calls : c # current' =>
             /\ call'[c].aborted => call'[c].at = "body"
             /\ call'[c].at # "idle" => call'[c].aborted
    BY <1>0, <1>a, Loading
  <2>2. LoaderTypes'
    BY <1>0, <1>a, <2>1 DEF LoaderTypes
  <2>3. CallsAwaited' /\ RowsAreAskedFor'
    BY <1>a, <2>1 DEF CallsAwaited, RowsAreAskedFor
  <2> QED
    BY <2>2, <2>3 DEF LoaderInv
<1>1. ASSUME NEW o \in Orders, SetOrder(o) PROVE LoaderInv'
  BY <1>1, <1>a, FirstPage DEF SetOrder
<1>2. ASSUME NEW p \in Page, SetPage(p) PROVE LoaderInv'
  <2>1. order \in Orders
    BY <1>0 DEF LoaderTypes
  <2> QED
    BY <1>2, <1>a, <2>1 DEF SetPage
<1>3. CASE Retry
  <2>1. order \in Orders /\ page \in Page
    BY <1>0 DEF LoaderTypes
  <2> QED
    BY <1>3, <1>a, <2>1 DEF Retry
<1>b. \A c \in Calls : call[c] \in CallState /\ Resting.at = "idle" /\ ~ Resting.aborted
  BY <1>0 DEF LoaderTypes, Resting
<1>4. ASSUME NEW c \in Calls, Respond(c) PROVE LoaderInv'
  <2> DEFINE new == [call[c] EXCEPT !.at = "body"]
  <2>1. call' = [call EXCEPT ![c] = new] /\ call[c].at = "asked"
    BY <1>4 DEF Respond
  <2>2. /\ new \in CallState /\ new.at = "body" /\ new.aborted = call[c].aborted
        /\ new.inputs = call[c].inputs
    BY <1>b DEF CallState
  <2> HIDE DEF new
  <2>3. /\ call' \in [Calls -> CallState] /\ call'[c] = new
        /\ \A d \in Calls : d # c => call'[d] = call[d]
    BY <1>0, <2>1, <2>2 DEF LoaderTypes
  <2>4. LoaderTypes'
    BY <1>0, <1>4, <2>3 DEF Respond, LoaderTypes
  <2>5. CallsAwaited'
    BY <1>0, <1>4, <2>1, <2>2, <2>3 DEF Respond, CallsAwaited, LoaderTypes
  <2>6. RowsAreAskedFor'
    BY <1>0, <1>4 DEF Respond, RowsAreAskedFor
  <2> QED
    BY <2>4, <2>5, <2>6 DEF LoaderInv
<1>c. ASSUME NEW c \in Calls, call[c].at # "idle", call' = [call EXCEPT ![c] = Resting],
             UNCHANGED <<order, page, current>>
      PROVE  /\ call' \in [Calls -> CallState]
             /\ Awaited(c) => c = current
             /\ ~ Awaited(c) => c # current /\ call'[current] = call[current]
             /\ \A d \in Calls : /\ call'[d].aborted => call'[d].at = "body" /\ d # current'
                                 /\ call'[d].at # "idle" /\ d # current' => call'[d].aborted
             /\ c = current => call'[current'].at = "idle"
  <2>1. /\ call' \in [Calls -> CallState] /\ call'[c] = Resting
        /\ \A d \in Calls : d # c => call'[d] = call[d]
    BY <1>0, <1>c, FirstPage DEF LoaderTypes
  <2>2. Awaited(c) => c = current
    BY <1>0, <1>c DEF Awaited, CallsAwaited
  <2>3. ~ Awaited(c) => c # current
    BY <1>0, <1>c DEF Awaited, CallsAwaited
  <2>4. current \in Calls
    BY <1>0 DEF LoaderTypes
  <2>5. \A d \in Calls : /\ call'[d].aborted => call'[d].at = "body" /\ d # current'
                         /\ call'[d].at # "idle" /\ d # current' => call'[d].aborted
    BY <1>0, <1>b, <1>c, <2>1 DEF CallsAwaited
  <2> QED
    BY <1>b, <1>c, <2>1, <2>2, <2>3, <2>4, <2>5
<1>5. ASSUME NEW c \in Calls, Show(c) PROVE LoaderInv'
  <2>1. /\ call[c].at # "idle" /\ call' = [call EXCEPT ![c] = Resting]
        /\ UNCHANGED <<order, page, current, viewError>>
    BY <1>5 DEF Show
  <2>2. /\ call' \in [Calls -> CallState]
        /\ Awaited(c) => c = current
        /\ ~ Awaited(c) => c # current /\ call'[current] = call[current]
        /\ \A d \in Calls : /\ call'[d].aborted => call'[d].at = "body" /\ d # current'
                            /\ call'[d].at # "idle" /\ d # current' => call'[d].aborted
        /\ c = current => call'[current'].at = "idle"
    BY <1>c, <2>1
  <2>3. CASE Awaited(c)
    <3>1. /\ rows' = call[c].inputs /\ total' = Total /\ fetching' = FALSE
      BY <1>5, <2>3 DEF Show
    <3>2. c = current /\ fetching
      BY <1>0, <2>1, <2>2, <2>3 DEF CallsAwaited
    <3>3. rows' = <<order, page>> /\ call[c].inputs \in Inputs
      BY <1>0, <1>b, <3>1, <3>2 DEF CallsAwaited, CallState
    <3>4. LoaderTypes'
      BY <1>0, <2>1, <2>2, <3>1, <3>3 DEF LoaderTypes
    <3>5. CallsAwaited' /\ RowsAreAskedFor'
      BY <2>1, <2>2, <3>1, <3>2, <3>3 DEF CallsAwaited, RowsAreAskedFor
    <3> QED
      BY <3>4, <3>5 DEF LoaderInv
  <2>4. CASE ~ Awaited(c)
    <3>1. UNCHANGED <<rows, total, fetching>>
      BY <1>5, <2>4 DEF Show
    <3>2. LoaderTypes'
      BY <1>0, <2>1, <2>2, <3>1 DEF LoaderTypes
    <3>3. CallsAwaited' /\ RowsAreAskedFor'
      BY <1>0, <2>1, <2>2, <2>4, <3>1 DEF CallsAwaited, RowsAreAskedFor
    <3> QED
      BY <3>2, <3>3 DEF LoaderInv
  <2> QED
    BY <2>3, <2>4
<1>6. ASSUME NEW c \in Calls, CallFails(c) PROVE LoaderInv'
  <2>1. /\ call[c].at # "idle" /\ call' = [call EXCEPT ![c] = Resting]
        /\ UNCHANGED <<order, page, current, rows, total>>
    BY <1>6 DEF CallFails
  <2>2. /\ call' \in [Calls -> CallState]
        /\ Awaited(c) => c = current
        /\ ~ Awaited(c) => c # current /\ call'[current] = call[current]
        /\ \A d \in Calls : /\ call'[d].aborted => call'[d].at = "body" /\ d # current'
                            /\ call'[d].at # "idle" /\ d # current' => call'[d].aborted
        /\ c = current => call'[current'].at = "idle"
    BY <1>c, <2>1
  <2>3. CASE Awaited(c)
    <3>1. viewError' = TRUE /\ fetching' = FALSE
      BY <1>6, <2>3 DEF CallFails
    <3>2. LoaderTypes'
      BY <1>0, <2>1, <2>2, <3>1 DEF LoaderTypes
    <3>3. CallsAwaited' /\ RowsAreAskedFor'
      BY <2>2, <2>3, <3>1 DEF CallsAwaited, RowsAreAskedFor
    <3> QED
      BY <3>2, <3>3 DEF LoaderInv
  <2>4. CASE ~ Awaited(c)
    <3>1. UNCHANGED <<viewError, fetching>>
      BY <1>6, <2>4 DEF CallFails
    <3>2. LoaderTypes'
      BY <1>0, <2>1, <2>2, <3>1 DEF LoaderTypes
    <3>3. CallsAwaited' /\ RowsAreAskedFor'
      BY <1>0, <2>1, <2>2, <2>4, <3>1 DEF CallsAwaited, RowsAreAskedFor
    <3> QED
      BY <3>2, <3>3 DEF LoaderInv
  <2> QED
    BY <2>3, <2>4
<1> QED
  BY <1>1, <1>2, <1>3, <1>4, <1>5, <1>6 DEF LoaderNext

LEMMA PollerInit == ViewsInit => PollerInv
<1> SUFFICES ASSUME ViewsInit PROVE PollerInv
  OBVIOUS
<1> DEFINE run(n) == [at |-> IF n = 1 THEN "asked" ELSE "none", found |-> 0]
<1>1. /\ loop = [n \in Runs |-> run(n)] /\ live = 1 /\ presses = 0 /\ viewErrors = 0
      /\ status = 0 /\ fails = 0 /\ healthShown = 0 /\ phase = "checking"
  BY DEF ViewsInit
<1>2. \A n \in Runs : /\ run(n) \in LoopState /\ run(n).found = 0
                      /\ run(n).at = IF n = 1 THEN "asked" ELSE "none"
  BY DEF LoopState
<1> HIDE DEF run
<1>3. loop \in [Runs -> LoopState] /\ \A n \in Runs : loop[n] = run(n)
  BY <1>1, <1>2
<1>4. PollerTypes
  BY <1>1, <1>3, FirstPage DEF PollerTypes
<1>5. LastRunPolls /\ FoundIsNewer
  BY <1>1, <1>2, <1>3, FirstPage DEF LastRunPolls, FoundIsNewer
<1> QED
  BY <1>4, <1>5 DEF PollerInv

(* One run changes, to a state that it may be in.                          *)
LEMMA RunChanges ==
  ASSUME PollerInv, NEW n \in Runs, NEW new \in LoopState,
         loop' = [loop EXCEPT ![n] = new],
         new.found <= status, UNCHANGED <<live, presses>>,
         n # live => new.at \in {"none", "body"},
         n = live /\ new.at = "body" => healthShown' <= new.found,
         status' = status, status' \in Nat, fails' \in Nat, healthShown' \in Nat,
         viewErrors' \in Nat, phase' \in {"checking", "reachable", "unreachable"},
         n # live => healthShown' = healthShown, healthShown' <= status
  PROVE  PollerInv'
<1>0. PollerTypes /\ LastRunPolls /\ FoundIsNewer
  BY DEF PollerInv
<1>1. /\ loop' \in [Runs -> LoopState] /\ loop'[n] = new
      /\ \A m \in Runs : m # n => loop'[m] = loop[m]
  BY <1>0 DEF PollerTypes
<1>2. PollerTypes'
  BY <1>0, <1>1 DEF PollerTypes
<1>3. LastRunPolls'
  BY <1>0, <1>1 DEF LastRunPolls, PollerTypes
<1>4. FoundIsNewer'
  <2>1. \A m \in Runs : loop'[m].found <= status'
    BY <1>0, <1>1 DEF FoundIsNewer
  <2>2. live \in Runs /\ healthShown' <= status'
    BY <1>0 DEF PollerTypes
  <2>3. loop'[live'].at = "body" => healthShown' <= loop'[live'].found
    BY <1>0, <1>1, <2>2 DEF FoundIsNewer
  <2> QED
    BY <2>1, <2>2, <2>3 DEF FoundIsNewer
<1> QED
  BY <1>2, <1>3, <1>4 DEF PollerInv

LEMMA RunStates ==
  ASSUME PollerInv, NEW n \in Runs, NEW place \in {"none", "asked", "body", "timer"}
  PROVE  /\ [loop[n] EXCEPT !.at = place] \in LoopState
         /\ [loop[n] EXCEPT !.at = place].at = place
         /\ [loop[n] EXCEPT !.at = place].found = loop[n].found
         /\ loop[n].found <= status /\ loop[n].found \in Nat
<1>1. loop[n] \in LoopState /\ loop[n].found <= status
  BY DEF PollerInv, PollerTypes, FoundIsNewer
<1> QED
  BY <1>1 DEF LoopState

LEMMA PollerStep == PollerInv /\ PollerNext => PollerInv' /\ healthShown' >= healthShown
<1> SUFFICES ASSUME PollerInv, PollerNext PROVE PollerInv' /\ healthShown' >= healthShown
  OBVIOUS
<1>0. PollerTypes /\ LastRunPolls /\ FoundIsNewer
  BY DEF PollerInv
<1>t. /\ loop \in [Runs -> LoopState] /\ live \in Runs /\ live \in Nat
      /\ status \in Nat /\ fails \in Nat /\ healthShown \in Nat
      /\ presses \in Nat /\ viewErrors \in Nat
      /\ phase \in {"checking", "reachable", "unreachable"} /\ healthShown <= status
  BY <1>0, FirstPage DEF PollerTypes, FoundIsNewer
<1>1. CASE HealthChanges
  <2>1. /\ status' = status + 1
        /\ UNCHANGED <<loop, live, fails, phase, healthShown, presses, viewErrors>>
    BY <1>1 DEF HealthChanges
  <2>2. PollerTypes' /\ LastRunPolls'
    BY <1>0, <1>t, <2>1 DEF PollerTypes, LastRunPolls
  <2>3. \A n \in Runs : loop[n].found \in Nat
    BY <1>t DEF LoopState
  <2>4. FoundIsNewer'
    BY <1>0, <1>t, <2>1, <2>3 DEF FoundIsNewer
  <2> QED
    BY <1>t, <2>1, <2>2, <2>4 DEF PollerInv
<1>2. CASE Restart
  <2> DEFINE left == [loop[live] EXCEPT !.at = IF loop[live].at = "body" THEN "body" ELSE "none"]
             begun == [loop[live + 1] EXCEPT !.at = "asked"]
  <2>1. /\ presses < MaxPresses /\ presses' = presses + 1 /\ live' = live + 1 /\ fails' = 0
        /\ UNCHANGED <<status, phase, healthShown, viewErrors>>
    BY <1>2 DEF Restart, Press
  <2>2. live + 1 \in Runs /\ live + 1 # live /\ live + 1 <= presses + 2
    BY <1>0, <1>t, <2>1, ViewsAssumption DEF LastRunPolls, Runs
  <2>3. /\ left \in LoopState /\ left.at \in {"none", "body"} /\ left.found = loop[live].found
        /\ begun \in LoopState /\ begun.at = "asked" /\ begun.found = loop[live + 1].found
    BY <1>t, <2>2, RunStates DEF LoopState
  <2>4. loop' = [loop EXCEPT ![live] = left, ![live + 1] = begun]
    BY <1>2, <1>t, <2>2 DEF Restart
  <2> HIDE DEF left, begun
  <2>5. /\ loop' \in [Runs -> LoopState] /\ loop'[live] = left /\ loop'[live + 1] = begun
        /\ \A n \in Runs : n # live /\ n # live + 1 => loop'[n] = loop[n]
    BY <1>t, <2>2, <2>3, <2>4
  <2>6. PollerTypes'
    BY <1>t, <2>1, <2>2, <2>5 DEF PollerTypes
  <2>7. LastRunPolls'
    <3>1. live' <= presses' + 1
      BY <1>t, <2>1, <2>2
    <3>2. \A n \in Runs : n # live + 1 => loop'[n].at \in {"none", "body"}
      BY <1>0, <2>3, <2>5 DEF LastRunPolls
    <3> QED
      BY <2>1, <3>1, <3>2 DEF LastRunPolls
  <2>8. FoundIsNewer'
    BY <1>0, <2>1, <2>2, <2>3, <2>5 DEF FoundIsNewer
  <2> QED
    BY <1>t, <2>1, <2>6, <2>7, <2>8 DEF PollerInv
<1>3. ASSUME NEW n \in Runs, HealthAnswers(n) PROVE PollerInv' /\ healthShown' >= healthShown
  <2> DEFINE new == [at |-> "body", found |-> status]
  <2>1. /\ loop' = [loop EXCEPT ![n] = new]
        /\ UNCHANGED <<status, live, fails, phase, healthShown, presses, viewErrors>>
    BY <1>3 DEF HealthAnswers
  <2>2. new \in LoopState /\ new.at = "body" /\ new.found = status
    BY <1>t DEF LoopState
  <2> HIDE DEF new
  <2>3. /\ new.found <= status /\ healthShown' <= status /\ healthShown' <= new.found
        /\ status' = status /\ status' \in Nat /\ fails' \in Nat /\ healthShown' \in Nat
        /\ viewErrors' \in Nat /\ phase' \in {"checking", "reachable", "unreachable"}
        /\ healthShown' = healthShown /\ UNCHANGED <<live, presses>>
    BY <1>t, <2>1, <2>2
  <2>4. PollerInv'
    BY <2>1, <2>2, <2>3, RunChanges
  <2> QED
    BY <1>t, <2>3, <2>4
<1>4. ASSUME NEW n \in Runs, TickSucceeds(n) PROVE PollerInv' /\ healthShown' >= healthShown
  <2>1. loop[n].at = "body" /\ UNCHANGED <<status, live, presses, viewErrors>>
    BY <1>4 DEF TickSucceeds
  <2>2. CASE Cancelled(n)
    <3> DEFINE new == [loop[n] EXCEPT !.at = "none"]
    <3>1. loop' = [loop EXCEPT ![n] = new] /\ UNCHANGED <<fails, phase, healthShown>>
      BY <1>4, <2>2 DEF TickSucceeds, At
    <3>2. new \in LoopState /\ new.at = "none" /\ new.found <= status
      BY RunStates
    <3> HIDE DEF new
    <3>3. PollerInv'
      BY <1>t, <2>1, <3>1, <3>2, RunChanges
    <3> QED
      BY <1>t, <3>1, <3>3
  <2>3. CASE ~ Cancelled(n)
    <3> DEFINE new == [loop[n] EXCEPT !.at = "timer"]
    <3>1. /\ loop' = [loop EXCEPT ![n] = new] /\ n = live
          /\ healthShown' = loop[n].found /\ phase' = "reachable" /\ fails' = 0
      BY <1>4, <2>3 DEF TickSucceeds, At, Cancelled
    <3>2. /\ new \in LoopState /\ new.at = "timer" /\ new.found = loop[n].found
          /\ loop[n].found <= status /\ loop[n].found \in Nat
      BY RunStates
    <3>3. healthShown <= loop[n].found
      BY <1>0, <2>1, <3>1 DEF FoundIsNewer
    <3> HIDE DEF new
    <3>4. PollerInv'
      BY <1>t, <2>1, <3>1, <3>2, RunChanges
    <3> QED
      BY <1>t, <3>1, <3>2, <3>3, <3>4
  <2> QED
    BY <2>2, <2>3
<1>5. ASSUME NEW n \in Runs, TickFails(n) PROVE PollerInv' /\ healthShown' >= healthShown
  <2>1. /\ UNCHANGED <<status, live, healthShown, presses>> /\ viewErrors' \in Nat
    BY <1>5, <1>t DEF TickFails, CallTrouble
  <2>2. CASE Cancelled(n)
    <3> DEFINE new == [loop[n] EXCEPT !.at = "none"]
    <3>1. loop' = [loop EXCEPT ![n] = new] /\ UNCHANGED <<fails, phase>>
      BY <1>5, <2>2 DEF TickFails, At
    <3>2. new \in LoopState /\ new.at = "none" /\ new.found <= status
      BY RunStates
    <3> HIDE DEF new
    <3>3. PollerInv'
      BY <1>t, <2>1, <3>1, <3>2, RunChanges
    <3> QED
      BY <1>t, <2>1, <3>3
  <2>3. CASE ~ Cancelled(n)
    <3> DEFINE new == [loop[n] EXCEPT !.at = "timer"]
    <3>1. /\ loop' = [loop EXCEPT ![n] = new] /\ n = live
          /\ phase' = "unreachable" /\ fails' = fails + 1
      BY <1>5, <2>3 DEF TickFails, At, Cancelled
    <3>2. new \in LoopState /\ new.at = "timer" /\ new.found <= status
      BY RunStates
    <3> HIDE DEF new
    <3>3. /\ healthShown' <= status /\ status' = status /\ status' \in Nat
          /\ fails' \in Nat /\ healthShown' \in Nat /\ viewErrors' \in Nat
          /\ phase' \in {"checking", "reachable", "unreachable"}
          /\ healthShown' = healthShown /\ UNCHANGED <<live, presses>>
      BY <1>t, <2>1, <3>1
    <3>4. PollerInv'
      BY <3>1, <3>2, <3>3, RunChanges
    <3> QED
      BY <1>t, <3>3, <3>4
  <2> QED
    BY <2>2, <2>3
<1>6. ASSUME NEW n \in Runs, Tick(n) PROVE PollerInv' /\ healthShown' >= healthShown
  <2> DEFINE new == [loop[n] EXCEPT !.at = "asked"]
  <2>1. /\ loop[n].at = "timer" /\ loop' = [loop EXCEPT ![n] = new]
        /\ UNCHANGED <<status, live, fails, phase, healthShown, presses, viewErrors>>
    BY <1>6 DEF Tick, At
  <2>2. new \in LoopState /\ new.at = "asked" /\ new.found <= status
    BY RunStates
  <2>3. n = live
    BY <1>0, <2>1 DEF LastRunPolls
  <2> HIDE DEF new
  <2>4. PollerInv'
    BY <1>t, <2>1, <2>2, <2>3, RunChanges
  <2> QED
    BY <1>t, <2>1, <2>4
<1> QED
  BY <1>1, <1>2, <1>3, <1>4, <1>5, <1>6 DEF PollerNext

(* A button of the views counts among the presses; nothing else is shared. *)
LEMMA LoaderLeavesPoller == PollerInv /\ LoaderNext => PollerInv' /\ UNCHANGED healthShown
<1> SUFFICES ASSUME PollerInv, LoaderNext PROVE PollerInv' /\ UNCHANGED healthShown
  OBVIOUS
<1>0. PollerTypes /\ LastRunPolls /\ FoundIsNewer
  BY DEF PollerInv
<1>1. /\ UNCHANGED pollVars
      /\ presses' = presses \/ presses' = presses + 1
      /\ viewErrors' = viewErrors \/ viewErrors' = viewErrors + 1
  BY DEF LoaderNext, SetOrder, SetPage, Retry, Respond, Show, CallFails, CallTrouble, Press
<1>2. UNCHANGED <<status, loop, live, fails, phase, healthShown>>
  BY <1>1 DEF pollVars
<1>3. PollerTypes' /\ presses' \in Nat /\ presses' >= presses
  BY <1>0, <1>1, <1>2 DEF PollerTypes
<1>4. LastRunPolls'
  BY <1>0, <1>1, <1>2, FirstPage DEF LastRunPolls, PollerTypes
<1>5. FoundIsNewer'
  BY <1>0, <1>2 DEF FoundIsNewer
<1> QED
  BY <1>2, <1>3, <1>4, <1>5 DEF PollerInv

LEMMA PollerLeavesLoader == LoaderInv /\ PollerNext => LoaderInv'
<1> SUFFICES ASSUME LoaderInv, PollerNext PROVE LoaderInv'
  OBVIOUS
<1>1. UNCHANGED viewVars
  BY DEF PollerNext, HealthChanges, Restart, HealthAnswers, TickSucceeds, TickFails, Tick
<1> QED
  BY <1>1 DEF viewVars, LoaderInv, LoaderTypes, CallsAwaited, RowsAreAskedFor

LEMMA ViewsInductive ==
  ViewsSpec => [](LoaderInv /\ PollerInv) /\ [][healthShown' >= healthShown]_viewsVars
<1>1. ViewsInit => LoaderInv /\ PollerInv
  BY LoaderInit, PollerInit
<1>2. LoaderInv /\ PollerInv /\ [LoaderNext \/ PollerNext]_viewsVars =>
        LoaderInv' /\ PollerInv' /\ [healthShown' >= healthShown]_viewsVars
  <2> SUFFICES ASSUME LoaderInv, PollerInv, [LoaderNext \/ PollerNext]_viewsVars
               PROVE  LoaderInv' /\ PollerInv' /\ [healthShown' >= healthShown]_viewsVars
    OBVIOUS
  <2>1. CASE LoaderNext
    <3>1. healthShown \in Nat
      BY DEF PollerInv, PollerTypes
    <3> QED
      BY <2>1, <3>1, LoaderStep, LoaderLeavesPoller
  <2>2. CASE PollerNext
    BY <2>2, PollerStep, PollerLeavesLoader
  <2>3. CASE UNCHANGED viewsVars
    <3>1. UNCHANGED <<order, page, rows, total, fetching, viewError, call, current, presses,
                      viewErrors, status, loop, live, fails, phase, healthShown>>
      BY <2>3 DEF viewsVars, viewVars, pollVars
    <3>2. LoaderInv'
      BY <3>1 DEF LoaderInv, LoaderTypes, CallsAwaited, RowsAreAskedFor
    <3>3. PollerInv'
      BY <3>1 DEF PollerInv, PollerTypes, LastRunPolls, FoundIsNewer
    <3> QED
      BY <2>3, <3>2, <3>3
  <2> QED
    BY <2>1, <2>2, <2>3
<1> QED
  BY <1>1, <1>2, PTL DEF ViewsSpec

(* What the views and the poller hold is of its type.                      *)
THEOREM ViewsTyped == ViewsSpec => []ViewsTypeOK
<1>1. LoaderInv /\ PollerInv => ViewsTypeOK
  <2> SUFFICES ASSUME LoaderInv, PollerInv PROVE ViewsTypeOK
    OBVIOUS
  <2>1. {fetching, viewError} \subseteq BOOLEAN
    BY Zenon DEF LoaderInv, LoaderTypes
  <2> QED
    BY <2>1 DEF LoaderInv, LoaderTypes, PollerInv, PollerTypes, ViewsTypeOK
<1> QED
  BY <1>1, ViewsInductive, PTL

(* A power of two is positive, and the back-off is between its bounds.     *)
LEMMA TwoToGrows == \A n \in Nat : TwoTo[n] \in Nat \ {0}
<1> DEFINE N == Nat \ {0}
           double == [x \in N |-> 2 * x]
           s == [n \in Nat |-> double]
           one == 1
<1>1. PICK h : GoesOn(h, N, one, s)
  <2>1. one \in N
    OBVIOUS
  <2>2. StepsIn(s, N)
    BY DEF StepsIn
  <2> HIDE DEF N, double, s, one
  <2> QED
    BY <2>1, <2>2, EndlessWay
<1>2. h \in [Nat -> N] /\ h[0] = 1 /\ \A n \in Nat : h[n + 1] = 2 * h[n]
  BY <1>1 DEF GoesOn
<1> DEFINE Next2(f) == f = [n \in Nat |-> IF n = 0 THEN 1 ELSE 2 * f[n - 1]]
<1>3. Next2(h)
  <2>1. ASSUME NEW n \in Nat PROVE h[n] = IF n = 0 THEN 1 ELSE 2 * h[n - 1]
    <3>1. CASE n # 0
      <4>1. n - 1 \in Nat /\ (n - 1) + 1 = n
        BY <3>1
      <4>2. h[(n - 1) + 1] = 2 * h[n - 1]
        BY <4>1, <1>2
      <4> QED
        BY <3>1, <4>1, <4>2
    <3> QED
      BY <3>1, <1>2
  <2>2. h = [n \in Nat |-> h[n]]
    BY <1>2
  <2> QED
    BY <2>1, <2>2
<1>4. Next2(TwoTo)
  <2>1. TwoTo = CHOOSE f : Next2(f)
    BY DEF TwoTo
  <2> QED
    BY <1>3, <2>1
<1> DEFINE B == {n \in Nat : TwoTo[n] \notin N}
<1>5. SUFFICES ASSUME B # {} PROVE FALSE
  OBVIOUS
<1>6. PICK n \in B : \A m \in B : n <= m
  <2>1. B \subseteq Nat
    OBVIOUS
  <2> HIDE DEF B
  <2> QED
    BY <1>5, <2>1, LeastNumber
<1>7. n # 0
  BY <1>4, <1>6
<1>8. n - 1 \in Nat /\ n - 1 \notin B
  BY <1>6, <1>7
<1>9. TwoTo[n] = 2 * TwoTo[n - 1]
  BY <1>4, <1>6, <1>7
<1> DEFINE t == TwoTo[n - 1]
<1>10. t \in Nat \ {0} /\ TwoTo[n] = 2 * t
  BY <1>8, <1>9
<1> HIDE DEF t
<1> QED
  BY <1>6, <1>10

LEMMA DelayIsCapped == \A n \in Nat : 5000 <= Delay(n) /\ Delay(n) <= 30000
<1> SUFFICES ASSUME NEW n \in Nat PROVE 5000 <= Delay(n) /\ Delay(n) <= 30000
  OBVIOUS
<1>1. TwoTo[n] \in Nat \ {0}
  BY TwoToGrows
<1> DEFINE t == TwoTo[n]
<1> HIDE DEF t
<1>2. t \in Nat \ {0}
  BY <1>1 DEF t
<1>3. Delay(n) = IF n = 0 THEN 5000 ELSE IF 5000 * t < 30000 THEN 5000 * t ELSE 30000
  BY DEF Delay, t
<1> QED
  BY <1>2, <1>3

(* "a slow response for a page the operator has already navigated away     *)
(* from never lands" (SignalsPanel.tsx), "exactly one request in flight,   *)
(* not three" (useSystemHealth.tsx): of any number of calls, a view at     *)
(* rest shows the rows of its present inputs; one run of the poller asks   *)
(* or waits, for no longer than the cap however often it failed; and the   *)
(* health shown is never replaced by an older one.                         *)
THEOREM ViewsShowNothingStale == ViewsSpec => NothingStaleShown
<1>1. LoaderInv /\ PollerInv => RowsAreAskedFor /\ PollsAlone
  <2> SUFFICES ASSUME LoaderInv, PollerInv PROVE RowsAreAskedFor /\ PollsAlone
    OBVIOUS
  <2> DEFINE busy == {n \in Runs : loop[n].at \in {"asked", "timer"}}
  <2>1. busy \subseteq {live}
    BY DEF PollerInv, LastRunPolls
  <2>2. IsFiniteSet({live}) /\ Cardinality({live}) = 1
    BY FS_Singleton
  <2>3. Cardinality(busy) <= 1
    BY <2>1, <2>2, FS_Subset
  <2>4. fails \in Nat
    BY DEF PollerInv, PollerTypes
  <2>5. 5000 <= Delay(fails) /\ Delay(fails) <= 30000
    BY <2>4, DelayIsCapped
  <2>6. OnePoller
    BY <2>3 DEF OnePoller
  <2> QED
    BY <2>5, <2>6 DEF LoaderInv, PollsAlone
<1> QED
  BY <1>1, ViewsInductive, PTL DEF HealthNotOlder, NothingStaleShown

-----------------------------------------------------------------------------
(* The Live Feed.                                                          *)

(* The provider waits for the last fetch that it made, if any is open; the *)
(* others are aborted.                                                     *)
FetchAwaited ==
  /\ mounted <=> controller # NoFetch
  /\ \A f \in Fetches : /\ fetch[f].aborted => fetch[f].at = "body" /\ f # controller
                        /\ fetch[f].at # "idle" /\ f # controller => fetch[f].aborted

(* A page that was read is no newer than the list; the one awaited is no   *)
(* older than what is shown.                                               *)
PagesAreRead ==
  /\ data <= version /\ \A f \in Fetches : fetch[f].page <= version
  /\ \A f \in Fetches : fetch[f].at = "body" /\ f = controller => data <= fetch[f].page

(* Stream and timers end with the provider.                                *)
FeedRests == ~ mounted => stream = "none" /\ ~ waiting /\ ~ debounce /\ ~ polling

RequestTypes ==
  /\ version \in Nat /\ data \in Nat
  /\ fetch \in [Fetches -> FetchState] /\ controller \in Fetches \cup {NoFetch}

FlagTypes ==
  /\ mounted \in BOOLEAN /\ loading \in BOOLEAN /\ failed \in BOOLEAN
  /\ debounce \in BOOLEAN /\ polling \in BOOLEAN /\ waiting \in BOOLEAN

StreamTypes ==
  /\ stream \in StreamState /\ retries \in Nat
  /\ inbox \in SUBSET Nat /\ missed \in SUBSET Nat /\ drops \in Nat /\ mounts \in Nat

RequestInv == RequestTypes /\ FetchAwaited /\ PagesAreRead

TransportInv == FlagTypes /\ StreamTypes /\ FeedRests /\ OneTransport

LEMMA IdleFetch ==
  /\ Idle \in FetchState /\ Idle.at = "idle" /\ Idle.page = 0 /\ ~ Idle.aborted
  /\ Asked \in FetchState /\ Asked.at = "asked" /\ Asked.page = 0 /\ ~ Asked.aborted
BY DEF Idle, Asked, FetchState

(* After an abort no open fetch is awaited.                                *)
LEMMA Aborting ==
  ASSUME RequestInv
  PROVE  /\ Abort(fetch, controller) \in [Fetches -> FetchState]
         /\ \A f \in Fetches :
              /\ Abort(fetch, controller)[f].aborted => Abort(fetch, controller)[f].at = "body"
              /\ Abort(fetch, controller)[f].at # "idle" => Abort(fetch, controller)[f].aborted
              /\ Abort(fetch, controller)[f].page <= version
<1> DEFINE a == Abort(fetch, controller)
<1>0. /\ fetch \in [Fetches -> FetchState] /\ controller \in Fetches \cup {NoFetch}
      /\ FetchAwaited /\ \A f \in Fetches : fetch[f].page <= version /\ fetch[f] \in FetchState
      /\ version \in Nat
  BY DEF RequestInv, RequestTypes, PagesAreRead
<1>1. CASE controller = NoFetch \/ fetch[controller].at = "idle"
  <2>1. a = fetch
    BY <1>1 DEF Abort
  <2> HIDE DEF a
  <2>2. \A f \in Fetches : fetch[f].at # "idle" => fetch[f].aborted
    BY <1>0, <1>1, FeedAssumption DEF FetchAwaited
  <2>3. \A f \in Fetches : fetch[f].aborted => fetch[f].at = "body"
    BY <1>0 DEF FetchAwaited
  <2>4. a \in [Fetches -> FetchState] /\ \A f \in Fetches :
          /\ a[f].aborted => a[f].at = "body"
          /\ a[f].at # "idle" => a[f].aborted
          /\ a[f].page <= version
    BY <1>0, <2>1, <2>2, <2>3
  <2> QED
    BY <2>1, <2>2, <2>3, <1>0 DEF a
<1>2. CASE controller # NoFetch /\ fetch[controller].at # "idle"
  <2> DEFINE end == IF fetch[controller].at = "asked" THEN Idle
                    ELSE [fetch[controller] EXCEPT !.aborted = TRUE]
  <2>0. controller \in Fetches /\ fetch[controller] \in FetchState
    BY <1>0, <1>2
  <2>1. a = [fetch EXCEPT ![controller] = end]
    BY <1>0, <1>2, <2>0 DEF Abort
  <2>2. /\ end \in FetchState /\ end.page <= version
        /\ end.aborted => end.at = "body"
        /\ end.at # "idle" => end.aborted
    <3>1. CASE fetch[controller].at = "asked"
      BY <1>0, <3>1, IdleFetch
    <3>2. CASE fetch[controller].at # "asked"
      <4>1. end = [fetch[controller] EXCEPT !.aborted = TRUE] /\ fetch[controller].at = "body"
        BY <1>2, <2>0, <3>2 DEF FetchState
      <4> HIDE DEF end
      <4>2. fetch[controller].page <= version
        BY <1>0, <2>0
      <4> QED
        BY <2>0, <4>1, <4>2 DEF FetchState
    <3> QED
      BY <3>1, <3>2
  <2> HIDE DEF end, a
  <2>3. /\ a \in [Fetches -> FetchState] /\ a[controller] = end
        /\ \A f \in Fetches : f # controller => a[f] = fetch[f]
    BY <1>0, <2>0, <2>1, <2>2
  <2>4. \A f \in Fetches : /\ a[f].aborted => a[f].at = "body"
                           /\ a[f].at # "idle" => a[f].aborted
                           /\ a[f].page <= version
    BY <1>0, <2>2, <2>3 DEF FetchAwaited
  <2> QED
    BY <2>3, <2>4 DEF a
<1> QED
  BY <1>1, <1>2

LEMMA Fetching ==
  ASSUME RequestInv, FetchList(fetch), mounted', data' \in Nat, data' <= version,
         version' = version
  PROVE  RequestInv'
<1> DEFINE a == Abort(fetch, controller)
<1>1. PICK f \in Fetches : a[f].at = "idle" /\ fetch' = [a EXCEPT ![f] = Asked] /\ controller' = f
  BY Zenon DEF FetchList
<1>2. /\ a \in [Fetches -> FetchState]
      /\ \A g \in Fetches : /\ a[g].aborted => a[g].at = "body"
                            /\ a[g].at # "idle" => a[g].aborted
                            /\ a[g].page <= version
  BY Aborting
<1> HIDE DEF a
<1>3. /\ fetch' \in [Fetches -> FetchState] /\ fetch'[f] = Asked
      /\ \A g \in Fetches : g # f => fetch'[g] = a[g]
  BY <1>1, <1>2, IdleFetch
<1>4. version \in Nat
  BY DEF RequestInv, RequestTypes
<1>5. RequestTypes'
  BY <1>1, <1>3, <1>4 DEF RequestTypes
<1>6. FetchAwaited'
  BY <1>1, <1>2, <1>3, IdleFetch, FeedAssumption DEF FetchAwaited
<1>7. PagesAreRead'
  BY <1>1, <1>2, <1>3, <1>4, IdleFetch DEF PagesAreRead
<1> QED
  BY <1>5, <1>6, <1>7 DEF RequestInv

(* A fetch ends.                                                           *)
LEMMA FetchEnds ==
  ASSUME RequestInv, mounted \in BOOLEAN, NEW f \in Fetches, fetch[f].at # "idle",
         fetch' = [fetch EXCEPT ![f] = Idle],
         UNCHANGED <<version, mounted, controller>>,
         \/ UNCHANGED data
         \/ Wanted(f) /\ fetch[f].at = "body" /\ data' = fetch[f].page
  PROVE  RequestInv' /\ (mounted => data' >= data)
<1>0. /\ fetch \in [Fetches -> FetchState] /\ controller \in Fetches \cup {NoFetch}
      /\ version \in Nat /\ data \in Nat /\ FetchAwaited /\ PagesAreRead
      /\ fetch[f] \in FetchState /\ fetch[f].page \in Nat
  BY DEF RequestInv, RequestTypes, FetchState
<1>1. /\ fetch' \in [Fetches -> FetchState] /\ fetch'[f] = Idle
      /\ \A g \in Fetches : g # f => fetch'[g] = fetch[g]
  BY <1>0, IdleFetch
<1>2. Wanted(f) => f = controller
  BY <1>0 DEF Wanted, FetchAwaited
<1>3. /\ data' \in Nat /\ data' <= version /\ data' >= data
      /\ data' = data \/ f = controller
  BY <1>0, <1>2 DEF PagesAreRead
<1>4. RequestTypes'
  BY <1>0, <1>1, <1>3 DEF RequestTypes
<1>5. FetchAwaited'
  BY <1>0, <1>1, IdleFetch DEF FetchAwaited
<1>6. PagesAreRead'
  <2>1. \A g \in Fetches : fetch'[g].page <= version'
    BY <1>0, <1>1, IdleFetch DEF PagesAreRead
  <2>2. ASSUME NEW g \in Fetches, fetch'[g].at = "body", g = controller'
        PROVE  data' <= fetch'[g].page
    BY <1>0, <1>1, <1>3, <2>2, IdleFetch DEF PagesAreRead
  <2> QED
    BY <1>3, <2>1, <2>2 DEF PagesAreRead
<1> QED
  BY <1>3, <1>4, <1>5, <1>6 DEF RequestInv

LEMMA RequestsRest ==
  ASSUME RequestInv, UNCHANGED <<version, data, mounted, fetch, controller>>
  PROVE  RequestInv'
BY DEF RequestInv, RequestTypes, FetchAwaited, PagesAreRead

LEMMA FeedInitInv == FeedInit => RequestInv /\ TransportInv
<1> SUFFICES ASSUME FeedInit PROVE RequestInv /\ TransportInv
  OBVIOUS
<1>1. /\ fetch \in [Fetches -> FetchState] /\ \A f \in Fetches : fetch[f] = Idle
      /\ controller = NoFetch /\ version = 1 /\ data = 0 /\ mounted = FALSE
  BY IdleFetch DEF FeedInit
<1>2. RequestTypes
  BY <1>1 DEF RequestTypes
<1>3. FetchAwaited /\ PagesAreRead
  BY <1>1, IdleFetch DEF FetchAwaited, PagesAreRead
<1>4. TransportInv
  BY DEF FeedInit, TransportInv, FlagTypes, StreamTypes, FeedRests, OneTransport, StreamState
<1> QED
  BY <1>2, <1>3, <1>4 DEF RequestInv

LEMMA TransportStep == RequestInv /\ TransportInv /\ FeedNext => TransportInv'
<1> SUFFICES ASSUME RequestInv, TransportInv, FeedNext PROVE TransportInv'
  OBVIOUS
<1>0. FlagTypes /\ StreamTypes /\ FeedRests /\ OneTransport /\ version \in Nat
  BY DEF TransportInv, RequestInv, RequestTypes
<1> USE DEF TransportInv
<1>1. CASE Mount
  <2>1. FlagTypes'
    BY <1>0, <1>1, Zenon DEF Mount, FlagTypes
  <2>2. StreamTypes' /\ mounted' /\ ~ waiting' /\ ~ polling'
    BY <1>0, <1>1 DEF Mount, StreamTypes, StreamState, FeedRests
  <2> QED
    BY <2>1, <2>2 DEF FeedRests, OneTransport
<1>2. CASE Unmount
  <2>1. FlagTypes'
    BY <1>0, <1>2, Zenon DEF Unmount, FlagTypes, boardVars
  <2> QED
    BY <1>0, <1>2, <2>1 DEF Unmount, StreamTypes, FeedRests, OneTransport, StreamState
<1>3. CASE Refresh \/ Poll \/ Refetch
  <2>1. UNCHANGED <<mounted, loading, failed, polling, stream, waiting, retries, inbox,
                    missed, drops, mounts>>
    BY <1>3 DEF Refresh, Poll, Refetch, boardVars, streamVars
  <2>2. debounce' = debounce \/ debounce' = FALSE
    BY <1>3 DEF Refresh, Poll, Refetch
  <2>3. FlagTypes'
    BY <1>0, <2>1, <2>2, Zenon DEF FlagTypes
  <2>4. StreamTypes' /\ OneTransport'
    BY <1>0, <2>1 DEF StreamTypes, OneTransport
  <2>5. FeedRests'
    BY <1>0, <2>1, <2>2, Zenon DEF FeedRests
  <2> QED
    BY <2>3, <2>4, <2>5
<1>4. CASE Change
  <2>1. /\ UNCHANGED <<mounted, loading, failed, debounce, polling, stream, waiting, retries, mounts>>
        /\ inbox' \in {inbox, inbox \cup {version + 1}}
        /\ missed' \in {missed, missed \cup {version + 1}}
        /\ drops' \in {drops, drops + 1}
    BY <1>4 DEF Change, boardVars
  <2>2. StreamTypes'
    BY <1>0, <2>1 DEF StreamTypes
  <2>3. FlagTypes' /\ FeedRests' /\ OneTransport'
    BY <1>0, <2>1, Zenon DEF FlagTypes, FeedRests, OneTransport
  <2> QED
    BY <2>2, <2>3
<1>5. CASE HandleStream \/ Opened \/ Reconnect
  <2>1. FlagTypes'
    BY <1>0, <1>5, Zenon DEF HandleStream, Opened, Reconnect, FlagTypes, boardVars
  <2>2. CASE HandleStream \/ Opened
    <3>1. /\ stream # "none" /\ stream' \in StreamState
          /\ (polling' = polling \/ ~ polling') /\ retries' \in {retries, 0}
          /\ UNCHANGED <<mounted, debounce, waiting, inbox, missed, drops, mounts>>
      BY <2>2 DEF HandleStream, Opened, StreamState
    <3>2. mounted /\ ~ waiting /\ ~ polling
      BY <1>0, <3>1, Zenon DEF FeedRests, OneTransport
    <3>3. ~ polling'
      BY <3>1, <3>2, Zenon
    <3>4. FeedRests' /\ OneTransport'
      BY <3>1, <3>2, <3>3, Zenon DEF FeedRests, OneTransport
    <3>5. StreamTypes'
      BY <1>0, <3>1 DEF StreamTypes
    <3> QED
      BY <2>1, <3>4, <3>5
  <2>3. CASE Reconnect
    <3>1. /\ waiting /\ ~ waiting' /\ stream' = "opening"
          /\ UNCHANGED <<mounted, polling, retries, inbox, missed, drops, mounts>>
      BY <2>3 DEF Reconnect
    <3>2. mounted /\ ~ polling
      BY <1>0, <3>1, Zenon DEF FeedRests, OneTransport
    <3>3. FeedRests' /\ OneTransport'
      BY <3>1, <3>2, Zenon DEF FeedRests, OneTransport
    <3>4. StreamTypes'
      BY <1>0, <3>1 DEF StreamTypes, StreamState
    <3> QED
      BY <2>1, <3>3, <3>4
  <2> QED
    BY <1>5, <2>2, <2>3
<1>6. CASE OnIncidentEvent
  <2>1. PICK v \in inbox : inbox' = inbox \ {v}
    BY <1>6 DEF OnIncidentEvent
  <2>2. FlagTypes'
    BY <1>0, <1>6, Zenon DEF OnIncidentEvent, ScheduleRefetch, FlagTypes, boardVars
  <2> QED
    BY <1>0, <1>6, <2>1, <2>2 DEF OnIncidentEvent, ScheduleRefetch, StreamTypes, FeedRests,
       OneTransport
<1>7. CASE StreamFails
  <2>1. /\ stream # "none" /\ stream' = "none" /\ retries' = retries + 1
        /\ waiting' = (retries' <= MaxRetries)
        /\ polling' = (polling \/ retries' > MaxRetries)
        /\ inbox' = {} /\ missed' = missed \cup inbox /\ drops' = drops + 1
        /\ UNCHANGED <<mounted, loading, failed, debounce, mounts>>
    BY <1>7 DEF StreamFails, FeedTrouble, boardVars
  <2>2. mounted /\ ~ polling /\ MaxRetries \in Nat /\ retries \in Nat
    BY <1>0, <2>1, FeedAssumption DEF FeedRests, OneTransport, StreamTypes
  <2>3. (retries' <= MaxRetries) = ~ (retries' > MaxRetries)
    BY <2>1, <2>2
  <2> DEFINE givesUp == retries' > MaxRetries
  <2>4. waiting' = ~ givesUp /\ polling' = (polling \/ givesUp)
    BY <2>1, <2>3, Zenon
  <2> HIDE DEF givesUp
  <2>5. FlagTypes' /\ ~ (waiting' /\ polling')
    BY <1>0, <2>1, <2>2, <2>4, Zenon DEF FlagTypes
  <2>6. StreamTypes'
    BY <1>0, <2>1 DEF StreamTypes, StreamState
  <2>7. FeedRests' /\ OneTransport'
    BY <2>1, <2>2, <2>5 DEF FeedRests, OneTransport
  <2> QED
    BY <2>5, <2>6, <2>7
<1>8. ASSUME NEW f \in Fetches, Serve(f) \/ Arrive(f) \/ FetchFails(f) PROVE TransportInv'
  <2>1. /\ UNCHANGED <<mounted, debounce, polling, stream, waiting, retries, inbox, missed, mounts>>
        /\ loading' = loading \/ loading' = FALSE
        /\ failed' = failed \/ failed' = FALSE \/ failed' = TRUE
        /\ drops' = drops \/ drops' = drops + 1
    BY <1>8 DEF Serve, Arrive, FetchFails, FeedTrouble, boardVars, streamVars
  <2>2. FlagTypes' /\ FeedRests' /\ OneTransport'
    BY <1>0, <2>1, Zenon DEF FlagTypes, FeedRests, OneTransport
  <2>3. StreamTypes'
    BY <1>0, <2>1 DEF StreamTypes
  <2> QED
    BY <2>2, <2>3
<1> QED
  BY <1>1, <1>2, <1>3, <1>4, <1>5, <1>6, <1>7, <1>8 DEF FeedNext

LEMMA RequestStep ==
  RequestInv /\ TransportInv /\ FeedNext =>
    RequestInv' /\ (mounted /\ mounted' => data' >= data)
<1> SUFFICES ASSUME RequestInv, TransportInv, FeedNext
             PROVE  RequestInv' /\ (mounted /\ mounted' => data' >= data)
  OBVIOUS
<1>0. /\ version \in Nat /\ data \in Nat /\ data <= version /\ mounted \in BOOLEAN
      /\ FetchAwaited /\ PagesAreRead /\ RequestTypes
      /\ ~ mounted => stream = "none" /\ ~ waiting /\ ~ debounce /\ ~ polling
  BY DEF RequestInv, RequestTypes, TransportInv, FlagTypes, FeedRests, PagesAreRead
<1>1. CASE Mount
  <2>1. ~ mounted /\ mounted' /\ data' = 0 /\ FetchList(fetch) /\ version' = version
    BY <1>1 DEF Mount
  <2>2. data' \in Nat /\ data' <= version
    BY <1>0, <2>1
  <2> QED
    BY <2>1, <2>2, Fetching
<1>2. CASE Unmount
  <2>1. /\ ~ mounted' /\ fetch' = Abort(fetch, controller) /\ controller' = NoFetch
        /\ UNCHANGED <<version, data>>
    BY <1>2 DEF Unmount, boardVars
  <2> DEFINE a == Abort(fetch, controller)
  <2>2. /\ a \in [Fetches -> FetchState]
        /\ \A f \in Fetches : /\ a[f].aborted => a[f].at = "body"
                              /\ a[f].at # "idle" => a[f].aborted
                              /\ a[f].page <= version
    BY Aborting
  <2>3. fetch' = a
    BY <2>1
  <2> HIDE DEF a
  <2>4. RequestTypes'
    BY <1>0, <2>1, <2>2, <2>3 DEF RequestTypes
  <2>5. FetchAwaited' /\ PagesAreRead'
    BY <1>0, <2>1, <2>2, <2>3, FeedAssumption DEF FetchAwaited, PagesAreRead
  <2> QED
    BY <2>1, <2>4, <2>5 DEF RequestInv
<1>3. CASE Refresh \/ Poll \/ Refetch
  <2>1. mounted /\ mounted' = mounted /\ FetchList(fetch) /\ UNCHANGED <<version, data>>
    BY <1>0, <1>3 DEF Refresh, Poll, Refetch, boardVars
  <2>2. RequestInv'
    BY <1>0, <2>1, Fetching
  <2> QED
    BY <1>0, <2>1, <2>2
<1>4. CASE Change
  <2>1. version' = version + 1 /\ UNCHANGED <<mounted, data, fetch, controller>>
    BY <1>4 DEF Change, boardVars, requestVars
  <2>2. \A f \in Fetches : fetch[f].page \in Nat
    BY <1>0 DEF RequestTypes, FetchState
  <2>3. RequestTypes' /\ FetchAwaited' /\ PagesAreRead'
    BY <1>0, <2>1, <2>2 DEF RequestTypes, FetchAwaited, PagesAreRead
  <2> QED
    BY <1>0, <2>1, <2>3 DEF RequestInv
<1>5. CASE HandleStream \/ Opened \/ OnIncidentEvent \/ StreamFails \/ Reconnect
  <2>1. UNCHANGED <<version, data, mounted, fetch, controller>>
    BY <1>5 DEF HandleStream, Opened, OnIncidentEvent, StreamFails, Reconnect, boardVars, requestVars
  <2> QED
    BY <1>0, <2>1, RequestsRest
<1>6. ASSUME NEW f \in Fetches, Serve(f)
      PROVE  RequestInv' /\ (mounted /\ mounted' => data' >= data)
  <2> DEFINE new == [fetch[f] EXCEPT !.at = "body", !.page = version]
  <2>1. /\ fetch[f].at = "asked" /\ fetch' = [fetch EXCEPT ![f] = new]
        /\ UNCHANGED <<version, data, mounted, controller>>
    BY <1>6 DEF Serve, boardVars
  <2>2. fetch \in [Fetches -> FetchState] /\ fetch[f] \in FetchState
    BY <1>0 DEF RequestTypes
  <2>3. /\ new \in FetchState /\ new.at = "body" /\ new.page = version
        /\ new.aborted = fetch[f].aborted
    BY <1>0, <2>2 DEF FetchState
  <2> HIDE DEF new
  <2>4. /\ fetch' \in [Fetches -> FetchState] /\ fetch'[f] = new
        /\ \A g \in Fetches : g # f => fetch'[g] = fetch[g]
    BY <2>1, <2>2, <2>3
  <2>5. RequestTypes'
    BY <1>0, <2>1, <2>4 DEF RequestTypes
  <2>6. FetchAwaited'
    BY <1>0, <2>1, <2>3, <2>4 DEF FetchAwaited
  <2>7. PagesAreRead'
    BY <1>0, <2>1, <2>3, <2>4 DEF PagesAreRead
  <2> QED
    BY <1>0, <2>1, <2>5, <2>6, <2>7 DEF RequestInv
<1>7. ASSUME NEW f \in Fetches, Arrive(f)
      PROVE  RequestInv' /\ (mounted /\ mounted' => data' >= data)
  <2>1. /\ fetch[f].at = "body" /\ fetch' = [fetch EXCEPT ![f] = Idle]
        /\ UNCHANGED <<version, mounted, controller>>
    BY <1>7 DEF Arrive
  <2>2. \/ UNCHANGED data
        \/ Wanted(f) /\ data' = fetch[f].page
    BY <1>7 DEF Arrive, boardVars
  <2> QED
    BY <1>0, <2>1, <2>2, FetchEnds
<1>8. ASSUME NEW f \in Fetches, FetchFails(f)
      PROVE  RequestInv' /\ (mounted /\ mounted' => data' >= data)
  <2>1. /\ fetch[f].at # "idle" /\ fetch' = [fetch EXCEPT ![f] = Idle]
        /\ UNCHANGED <<version, mounted, controller, data>>
    BY <1>8 DEF FetchFails, boardVars
  <2> QED
    BY <1>0, <2>1, FetchEnds
<1> QED
  BY <1>1, <1>2, <1>3, <1>4, <1>5, <1>6, <1>7, <1>8 DEF FeedNext

LEMMA FeedInductive ==
  FeedSpec => [](RequestInv /\ TransportInv) /\ [][mounted /\ mounted' => data' >= data]_feedVars
<1>1. FeedInit => RequestInv /\ TransportInv
  BY FeedInitInv
<1>2. RequestInv /\ TransportInv /\ [FeedNext]_feedVars =>
        /\ RequestInv' /\ TransportInv'
        /\ [mounted /\ mounted' => data' >= data]_feedVars
  <2> SUFFICES ASSUME RequestInv, TransportInv, [FeedNext]_feedVars
               PROVE  /\ RequestInv' /\ TransportInv'
                      /\ [mounted /\ mounted' => data' >= data]_feedVars
    OBVIOUS
  <2>1. CASE FeedNext
    BY <2>1, RequestStep, TransportStep
  <2>2. CASE UNCHANGED feedVars
    <3>1. RequestInv'
      BY <2>2, RequestsRest DEF feedVars
    <3>2. TransportInv'
      BY <2>2 DEF feedVars, TransportInv, FlagTypes, StreamTypes, FeedRests, OneTransport
    <3> QED
      BY <2>2, <3>1, <3>2
  <2> QED
    BY <2>1, <2>2
<1> QED
  BY <1>1, <1>2, PTL DEF FeedSpec

(* "no stale page ever overwrites a newer one" (useIncidents.tsx): of any  *)
(* number of fetches, changes and failures, the page shown never goes back *)
(* while the provider lives, and the feed listens, waits or polls, never   *)
(* two of these.                                                           *)
THEOREM FeedNeverGoesBack == FeedSpec => NoOlderPage /\ []OneTransport
<1>1. TransportInv => OneTransport
  BY DEF TransportInv
<1> QED
  BY <1>1, FeedInductive, PTL DEF NoOlderPage

(* What the requests and the transport hold is of its type.                *)
THEOREM FeedTyped == FeedSpec => []FeedTypeOK
<1>1. RequestInv /\ TransportInv => FeedTypeOK
  <2> SUFFICES ASSUME RequestInv, TransportInv PROVE FeedTypeOK
    OBVIOUS
  <2>1. {mounted, loading, failed, debounce, polling, waiting} \subseteq BOOLEAN
    BY Zenon DEF TransportInv, FlagTypes
  <2> QED
    BY <2>1 DEF RequestInv, RequestTypes, PagesAreRead, TransportInv, StreamTypes, FeedTypeOK
<1> QED
  BY <1>1, FeedInductive, PTL

-----------------------------------------------------------------------------
(* The parts side by side.                                                 *)

(* A step of the composition is a step of each part, or leaves it alone.   *)
LEMMA PartsStep ==
  ASSUME [PartsNext]_partsVars
  PROVE  /\ [LimiterNext]_limiterVars /\ [ProbeNext]_probeVars /\ [NodeNext]_nodeVars
         /\ [TelemetryNext]_telemetryVars /\ [SessionsNext]_sessionsVars
         /\ [LoaderNext \/ PollerNext]_viewsVars /\ [ConsoleNext]_consoleVars
<1>1. CASE UNCHANGED partsVars
  BY <1>1 DEF partsVars
<1>2. CASE LimiterMoves
  BY <1>2 DEF LimiterMoves
<1>3. CASE ProbeMoves
  BY <1>3 DEF ProbeMoves
<1>4. CASE NodeMoves
  BY <1>4 DEF NodeMoves
<1>5. CASE TelemetryMoves
  BY <1>5 DEF TelemetryMoves
<1>6. CASE SessionsMove
  BY <1>6 DEF SessionsMove
<1>7. CASE LoaderMoves
  BY <1>7 DEF LoaderMoves
<1>8. CASE PollerMoves
  BY <1>8 DEF PollerMoves
<1>9. CASE PageMoves
  BY <1>9 DEF PageMoves
<1> QED
  BY <1>1, <1>2, <1>3, <1>4, <1>5, <1>6, <1>7, <1>8, <1>9 DEF PartsNext

(* Side by side, each part behaves as it does alone, so that what is       *)
(* proved of it alone holds of the whole: no request, tick, signal or      *)
(* click of one is in another's way.                                       *)
THEOREM PartsImplementEach ==
  PartsSpec => /\ LimiterSpec /\ ProbeSpec /\ NodeSpec /\ TelemetrySpec
               /\ SessionsSpec /\ ViewsSpec /\ ConsoleSpec
<1>1. PartsInit => /\ LimiterInit /\ ProbeInit /\ NodeInit /\ TelemetryInit
                   /\ SessionsInit /\ ViewsInit /\ ConsoleInit
  BY DEF PartsInit
<1>2. [PartsNext]_partsVars =>
        /\ [LimiterNext]_limiterVars /\ [ProbeNext]_probeVars /\ [NodeNext]_nodeVars
        /\ [TelemetryNext]_telemetryVars /\ [SessionsNext]_sessionsVars
        /\ [LoaderNext \/ PollerNext]_viewsVars /\ [ConsoleNext]_consoleVars
  BY PartsStep
<1> QED
  BY <1>1, <1>2, PTL DEF PartsSpec, LimiterSpec, ProbeSpec, NodeSpec, TelemetrySpec,
     SessionsSpec, ViewsSpec, ConsoleSpec

(* What all the parts hold is of its type, whatever the others do.         *)
THEOREM PartsTyped == PartsSpec => []PartsTypeOK
<1>1. ViewsSpec => []ViewsTypeOK
  BY ViewsTyped
<1>2. LimiterInv => LimiterTypeOK
  BY DEF LimiterInv
<1>3. ProbeInv => ProbeTypeOK
  BY DEF ProbeInv
<1>4. NodeInv => NodeTypeOK
  BY DEF NodeInv
<1>5. TelemetryInv => TelemetryTypeOK
  BY DEF TelemetryInv
<1>6. SessionsInv => SessionsTypeOK
  BY DEF SessionsInv
<1>7. ConsoleInv => ConsoleTypeOK
  BY DEF ConsoleInv
<1>8. LimiterTypeOK /\ ProbeTypeOK /\ NodeTypeOK /\ TelemetryTypeOK /\ SessionsTypeOK
        /\ ViewsTypeOK /\ ConsoleTypeOK => PartsTypeOK
  BY DEF PartsTypeOK
<1> QED
  BY <1>1, <1>2, <1>3, <1>4, <1>5, <1>6, <1>7, <1>8, PartsImplementEach, LimiterInductive,
     ProbeInductive, NodeInductive, TelemetryInductive, SessionsInductive, ConsoleInductive,
     PTL

(* Alerting and the feed side by side: both behave as they do alone, and   *)
(* their timers are as fair.                                               *)
THEOREM ReactionsImplementBoth == ReactionsSpec => FairAlertingSpec /\ FeedSpec
<1>1. ReactionsInit => AlertingInit /\ FeedInit
  BY DEF ReactionsInit
<1>2. [AlertingMoves \/ FeedMoves]_reactionsVars =>
        [AlertingNext]_alertingVars /\ [FeedNext]_feedVars
  BY DEF AlertingMoves, FeedMoves, reactionsVars
<1> QED
  BY <1>1, <1>2, PTL DEF ReactionsSpec, FairAlertingSpec, AlertingSpec, FeedSpec

(* What alerting and the feed hold is of its type.                         *)
THEOREM ReactionsTyped == ReactionsSpec => []ReactionsTypeOK
<1>1. AlertingTypeOK /\ FeedTypeOK => ReactionsTypeOK
  BY DEF ReactionsTypeOK
<1>2. FairAlertingSpec => AlertingSpec
  BY DEF FairAlertingSpec
<1> QED
  BY <1>1, <1>2, ReactionsImplementBoth, AlertingTyped, FeedTyped, PTL

=============================================================================
