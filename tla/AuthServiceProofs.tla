-------------------------- MODULE AuthServiceProofs --------------------------
(* Theorems about AuthService, for every number of players, keys, threads   *)
(* and late requests and every choice of faults.                            *)
EXTENDS AuthService, TLAPS

(* Who has seen the record of the call, or has written it, will find it     *)
(* again; so does a player with a token.                                    *)
Found ==
  /\ \A x \in Slots :
       \/ pc[x] \in {"second", "late"} /\ call[x].op \in {"logout", "activity"}
       \/ pc[x] = "done"
       => record[KeyUsed(x)] # NoRecord
  /\ TokensFindRecords

-----------------------------------------------------------------------------
(* The kinds of step.  A handler goes on, or gives up, without a write ...  *)
GoesOn(w) ==
  /\ pc[w] \in {"first", "second"}
  /\ \/ /\ pc' = [pc EXCEPT ![w] = "second"]
        /\ call[w].op \in {"logout", "activity"} => record[KeyUsed(w)] # NoRecord
        /\ call[w].op \in {"register", "login"} => AccountOf[call[w].player] \in accounts'
        /\ call[w].op = "register" => AccountOf[call[w].player] \notin accounts
     \/ pc' = [pc EXCEPT ![w] = "failed"]
     \/ /\ pc' = [pc EXCEPT ![w] = "done"]
        /\ call[w].op = "info" /\ record[KeyUsed(w)] # NoRecord
  /\ accounts \subseteq accounts' /\ accounts' \subseteq Accounts
  /\ UNCHANGED <<record, call, now, tokens, told>>

(* ... or gives up and leaves a late request behind; ...                    *)
LeavesBehind(w, t, op) ==
  /\ pc[w] \in {"first", "second"} /\ pc[t] = "idle"
  /\ \/ op = "create"
     \/ op = call[w].op /\ op # "info" /\ pc[w] = "second"
  /\ pc' = [pc EXCEPT ![w] = "failed", ![t] = "late"]
  /\ call' = [call EXCEPT ![t] = [call[w] EXCEPT !.op = op]]
  /\ UNCHANGED <<accounts, record, now, tokens, told>>

(* ... a thread, or a late request, writes a record; ...                    *)
Saves(x) ==
  /\ call[x].op \in {"register", "login", "logout", "activity"}
  /\ Write(x)
  /\ \/ /\ pc[x] = "second" /\ UNCHANGED call
        /\ pc' = [pc EXCEPT ![x] = "done"] \/ pc' = [pc EXCEPT ![x] = "failed"]
     \/ /\ pc[x] = "late" /\ call' = [call EXCEPT ![x] = NoCall]
        /\ pc' = [pc EXCEPT ![x] = "idle"]
  /\ UNCHANGED <<accounts, now, tokens, told>>

(* ... and a late request ends without a write.                             *)
Ends(t) ==
  /\ pc[t] = "late"
  /\ pc' = [pc EXCEPT ![t] = "idle"]
  /\ call' = [call EXCEPT ![t] = NoCall]
  /\ accounts \subseteq accounts' /\ accounts' \subseteq Accounts
  /\ UNCHANGED <<record, now, tokens, told>>

LEMMA HandlerKinds ==
  ASSUME TypeOK, NEW w \in Workers, Handle(w)
  PROVE  \/ GoesOn(w) \/ Saves(w) \/ Answer(w)
         \/ \E t \in Late, op \in Ops \cup {"create"} : LeavesBehind(w, t, op)
<1>1. pc[w] # "idle" => call[w] \in Calls /\ call[w].op # "create"
  BY DEF TypeOK, Slots
<1>2. accounts \subseteq Accounts
  BY DEF TypeOK
<1>3. CASE RegisterPlayer(w)
  <2> DEFINE account == AccountOf[call[w].player]
  <2>1. pc[w] = "first" /\ call[w].op = "register" /\ account \in Accounts
    BY <1>1, <1>3, AuthAssumption DEF RegisterPlayer, Handles, Calls
  <2>2. CASE RaisesEarly(w, "create") /\ UNCHANGED accounts
    BY <1>3, <2>1, <2>2 DEF RegisterPlayer, RaisesEarly, LeavesBehind
  <2>3. CASE Goto(w, "failed") /\ UNCHANGED <<accounts, call>>
    BY <1>2, <1>3, <2>1, <2>3 DEF RegisterPlayer, Goto, GoesOn
  <2>4. CASE /\ account \notin accounts /\ accounts' = accounts \cup {account}
             /\ Returns(w, "second")
    BY <1>2, <1>3, <2>1, <2>4 DEF RegisterPlayer, Returns, Goto, GoesOn
  <2>5. QED
    BY <1>3, <2>2, <2>3, <2>4 DEF RegisterPlayer
<1>4. CASE LoginPlayer(w)
  BY <1>2, <1>4 DEF LoginPlayer, Handles, Goto, GoesOn
<1>5. CASE CheckExists(w)
  BY <1>2, <1>5 DEF CheckExists, Handles, Goto, GoesOn
<1>6. CASE GetPlayerInfo(w)
  BY <1>2, <1>6 DEF GetPlayerInfo, Handles, Goto, GoesOn
<1>7. CASE ReadRecord(w)
  BY <1>2, <1>7 DEF ReadRecord, Goto, GoesOn
<1>8. CASE UpdateRecord(w)
  <2>1. pc[w] = "second" /\ call[w].op \in Ops /\ call[w].op # "info"
    BY <1>1, <1>8 DEF UpdateRecord, Calls
  <2>2. CASE Write(w) /\ Returns(w, "done")
    BY <1>8, <2>1, <2>2 DEF UpdateRecord, Returns, Goto, Saves, Ops
  <2>3. CASE Goto(w, "failed") /\ UNCHANGED <<record, call>>
    BY <1>2, <1>8, <2>1, <2>3 DEF UpdateRecord, Goto, GoesOn
  <2>4. CASE RaisesEarly(w, call[w].op) /\ UNCHANGED record
    BY <1>8, <2>1, <2>4 DEF UpdateRecord, RaisesEarly, LeavesBehind
  <2>5. QED
    BY <1>8, <2>2, <2>3, <2>4 DEF UpdateRecord
<1>9. QED
  BY <1>3, <1>4, <1>5, <1>6, <1>7, <1>8 DEF Handle

LEMMA LateKinds ==
  ASSUME TypeOK, NEW t \in Late, Land(t) \/ Vanish(t)
  PROVE  Saves(t) \/ Ends(t)
<1>1. pc[t] = "late" /\ call[t] \in Calls /\ call[t].op # "info"
  BY DEF Land, Vanish, TypeOK, Slots
<1>2. call[t].op \in Ops \cup {"create"} /\ AccountOf[call[t].player] \in Accounts
  BY <1>1, AuthAssumption DEF Calls
<1>3. accounts \subseteq Accounts
  BY DEF TypeOK
<1>4. CASE Vanish(t)
  BY <1>1, <1>3, <1>4 DEF Vanish, Goto, Ends
<1>5. CASE Land(t) /\ call[t].op = "create"
  BY <1>1, <1>2, <1>3, <1>5 DEF Land, Goto, Ends
<1>6. CASE Land(t) /\ call[t].op # "create"
  BY <1>1, <1>2, <1>6 DEF Land, Goto, Saves, Ops
<1>7. QED
  BY <1>4, <1>5, <1>6

LEMMA StepKinds ==
  ASSUME TypeOK, [Next]_vars
  PROVE  \/ \E w \in Workers : GoesOn(w) \/ Answer(w)
         \/ \E x \in Slots : Saves(x)
         \/ \E w \in Workers, t \in Late, op \in Ops \cup {"create"} : LeavesBehind(w, t, op)
         \/ \E t \in Late : Ends(t)
         \/ \E w \in Workers, p \in Players, op \in Ops : Begin(w, p, op)
         \/ Crash \/ UNCHANGED vars
<1>1. ASSUME NEW w \in Workers, Handle(w)
      PROVE  \/ GoesOn(w) \/ Answer(w) \/ \E x \in Slots : Saves(x)
             \/ \E t \in Late, op \in Ops \cup {"create"} : LeavesBehind(w, t, op)
  BY <1>1, HandlerKinds DEF Slots
<1>2. ASSUME NEW t \in Late, Land(t) \/ Vanish(t)
      PROVE  (\E x \in Slots : Saves(x)) \/ Ends(t)
  BY <1>2, LateKinds DEF Slots
<1>3. QED
  BY <1>1, <1>2 DEF Next

-----------------------------------------------------------------------------
(* What a call writes is a record.                                          *)
LEMMA UpdatedTyped ==
  ASSUME NEW c \in Calls, c.op \in {"register", "login", "logout", "activity"}, NEW r,
         c.op \in {"logout", "activity"} => r \in Records
  PROVE  Updated(r, c) \in Records /\ Updated(r, c) # NoRecord
<1>1. CASE c.op = "register"
  <2>1. Updated(r, c) = [loggedIn |-> FALSE, lastActivity |-> 0]
    BY <1>1 DEF Updated
  <2>2. [loggedIn |-> FALSE, lastActivity |-> 0] \in Records
    BY DEF Records
  <2>3. QED
    BY <2>1, <2>2, AuthAssumption DEF Records
<1>2. CASE c.op = "login"
  <2>1. Updated(r, c) = [loggedIn |-> TRUE, lastActivity |-> c.timestamp]
    BY <1>2 DEF Updated
  <2>2. [loggedIn |-> TRUE, lastActivity |-> c.timestamp] \in Records
    BY DEF Records, Calls
  <2>3. QED
    BY <2>1, <2>2, AuthAssumption DEF Records
<1>3. CASE c.op = "logout"
  <2>1. Updated(r, c) = [r EXCEPT !.loggedIn = FALSE]
    BY <1>3 DEF Updated
  <2>2. [r EXCEPT !.loggedIn = FALSE] \in Records
    BY <1>3 DEF Records
  <2>3. QED
    BY <2>1, <2>2, AuthAssumption DEF Records
<1>4. CASE c.op = "activity"
  <2>1. Updated(r, c) = [r EXCEPT !.lastActivity = c.timestamp]
    BY <1>4 DEF Updated
  <2>2. [r EXCEPT !.lastActivity = c.timestamp] \in Records
    BY <1>4 DEF Records, Calls
  <2>3. QED
    BY <2>1, <2>2, AuthAssumption DEF Records
<1>5. QED
  BY <1>1, <1>2, <1>3, <1>4

(* A write changes one key of its player, from nothing or a record to a     *)
(* record.                                                                  *)
LEMMA Saved ==
  ASSUME TypeOK, Found, NEW x \in Slots, Saves(x)
  PROVE  LET k == KeyUsed(x) IN
         /\ call[x] \in Calls /\ call[x].player \in Players
         /\ k \in Keys /\ k \in KeysOf(call[x].player)
         /\ call[x].op \in {"logout", "activity"} => record[k] \in Records
         /\ Updated(record[k], call[x]) \in Records
         /\ Updated(record[k], call[x]) # NoRecord
         /\ record'[k] = Updated(record[k], call[x])
         /\ \A j \in Keys \ {k} : record'[j] = record[j]
         /\ record' \in [Keys -> Records \cup {NoRecord}]
<1> DEFINE k == KeyUsed(x)
<1>1. call[x] \in Calls /\ call[x].player \in Players
  BY DEF Saves, TypeOK, Calls
<1>2. k \in Keys /\ k \in KeysOf(call[x].player)
  BY <1>1, AuthAssumption DEF KeyUsed, KeyFor, LoginKey, KeysOf
<1>3. call[x].op \in {"logout", "activity"} => record[k] \in Records
  BY <1>2 DEF Saves, Found, TypeOK
<1>4. call[x].op \in {"register", "login", "logout", "activity"}
  BY DEF Saves
<1>5. Updated(record[k], call[x]) \in Records /\ Updated(record[k], call[x]) # NoRecord
  BY <1>1, <1>3, <1>4, UpdatedTyped
<1>6. record \in [Keys -> Records \cup {NoRecord}]
  BY DEF TypeOK
<1>7. record' = [record EXCEPT ![k] = Updated(record[k], call[x])]
  BY DEF Saves, Write
<1> HIDE DEF k
<1>8. /\ record'[k] = Updated(record[k], call[x])
      /\ \A j \in Keys \ {k} : record'[j] = record[j]
      /\ record' \in [Keys -> Records \cup {NoRecord}]
  BY <1>2, <1>5, <1>6, <1>7
<1>9. QED
  BY <1>1, <1>2, <1>3, <1>5, <1>8 DEF k

(* No record is ever deleted.                                               *)
LEMMA RecordsStay ==
  ASSUME TypeOK, Found, [Next]_vars
  PROVE  \A k \in Keys : record[k] # NoRecord => record'[k] # NoRecord
<1>1. ASSUME NEW x \in Slots, Saves(x)
      PROVE  \A k \in Keys : record[k] # NoRecord => record'[k] # NoRecord
  BY <1>1, Saved
<1>2. CASE UNCHANGED record
  BY <1>2
<1>3. QED
  BY <1>1, <1>2, StepKinds DEF GoesOn, LeavesBehind, Ends, Begin, Answer, Crash, vars

-----------------------------------------------------------------------------
LEMMA BeginTyped ==
  ASSUME TypeOK, NEW w \in Workers, NEW p \in Players, NEW op \in Ops,
         Begin(w, p, op)
  PROVE  TypeOK'
<1>1. now' \in Nat
  BY AuthAssumption DEF Begin, TypeOK
<1>2. (CallsOf(p) = {}) \in BOOLEAN
  OBVIOUS
<1>3. [op |-> op, player |-> p, timestamp |-> now', alone |-> CallsOf(p) = {}] \in Calls
  BY <1>1, <1>2 DEF Calls
<1>4. \A v \in CallsOf(p) : /\ [call[v] EXCEPT !.alone = FALSE] \in Calls
                            /\ [call[v] EXCEPT !.alone = FALSE].op = call[v].op
  BY DEF CallsOf, TypeOK, Calls
<1>5. call' \in [Slots -> Calls \cup {NoCall}]
  BY <1>3, <1>4 DEF Begin, TypeOK
<1>6. w \in Slots /\ w \notin Late
  BY AuthAssumption DEF Slots
<1>7. pc'[w] = "first" /\ (\A v \in Slots \ {w} : pc'[v] = pc[v])
  BY <1>6 DEF Begin, Goto, TypeOK
<1>8. call'[w].op = op /\ call'[w] \in Calls
  BY <1>3, <1>6 DEF Begin
<1>9. \A v \in Slots \ {w} : pc[v] # "idle" =>
        call'[v] \in Calls /\ call'[v].op = call[v].op
  BY <1>4 DEF Begin, CallsOf, TypeOK
<1>10. told' \in [Players -> {"unsure", "out", "in"}]
  BY DEF Begin, TypeOK
<1>11. pc' \in [Slots -> {"idle", "first", "second", "done", "failed", "late"}]
  BY DEF Begin, Goto, TypeOK
<1>12. \A v \in Slots : pc'[v] # "idle" => call'[v] \in Calls
  BY <1>7, <1>8, <1>9
<1>13. \A v \in Workers : pc'[v] # "late" /\ (pc'[v] # "idle" => call'[v].op # "create")
  BY <1>7, <1>8, <1>9 DEF TypeOK, Slots, Ops
<1>14. \A t \in Late : pc'[t] \in {"idle", "late"} /\ (pc'[t] # "idle" => call'[t].op # "info")
  BY <1>6, <1>7, <1>9 DEF TypeOK, Slots
<1>15. UNCHANGED <<accounts, record, tokens>>
  BY DEF Begin
<1>16. QED
  BY <1>1, <1>5, <1>10, <1>11, <1>12, <1>13, <1>14, <1>15 DEF TypeOK

LEMMA AnswerTyped ==
  ASSUME TypeOK, NEW w \in Workers, Answer(w)
  PROVE  TypeOK'
<1>1. w \in Slots /\ call[w] \in Calls
  BY DEF Answer, TypeOK, Slots
<1>2. call[w].player \in Players
  BY <1>1 DEF Calls
<1>3. tokens' \subseteq Players
  BY <1>2 DEF Answer, TypeOK
<1>4. told' \in [Players -> {"unsure", "out", "in"}]
  BY <1>2 DEF Answer, TypeOK
<1>5. /\ pc' \in [Slots -> {"idle", "first", "second", "done", "failed", "late"}]
      /\ call' \in [Slots -> Calls \cup {NoCall}]
      /\ pc'[w] = "idle"
      /\ \A v \in Slots \ {w} : pc'[v] = pc[v] /\ call'[v] = call[v]
  BY <1>1 DEF Answer, Goto, TypeOK
<1>6. QED
  BY <1>3, <1>4, <1>5 DEF Answer, TypeOK, Slots

(* A late request takes the call over from the thread that leaves it.       *)
LEMMA LeftBehind ==
  ASSUME TypeOK, NEW w \in Workers, NEW t \in Late, NEW op \in Ops \cup {"create"},
         LeavesBehind(w, t, op)
  PROVE  /\ w \in Slots /\ t \in Slots /\ w # t
         /\ pc[w] \in {"first", "second"} /\ pc[t] = "idle"
         /\ pc' \in [Slots -> {"idle", "first", "second", "done", "failed", "late"}]
         /\ pc'[w] = "failed" /\ pc'[t] = "late"
         /\ \A v \in Slots \ {w, t} : pc'[v] = pc[v]
         /\ call' \in [Slots -> Calls \cup {NoCall}]
         /\ \A v \in Slots \ {t} : call'[v] = call[v]
         /\ call[w] \in Calls /\ call'[t] \in Calls /\ call'[t].op = op
         /\ call'[t].player = call[w].player
         /\ call'[t].timestamp = call[w].timestamp
         /\ call'[t].alone = call[w].alone
<1>1. w \in Slots /\ t \in Slots /\ w # t
  BY AuthAssumption DEF Slots
<1>2. pc[w] \in {"first", "second"} /\ pc[t] = "idle" /\ call[w] \in Calls
  BY <1>1 DEF LeavesBehind, TypeOK
<1>3. /\ pc' \in [Slots -> {"idle", "first", "second", "done", "failed", "late"}]
      /\ pc'[w] = "failed" /\ pc'[t] = "late"
      /\ \A v \in Slots \ {w, t} : pc'[v] = pc[v]
  BY <1>1 DEF LeavesBehind, TypeOK
<1> DEFINE c == [call[w] EXCEPT !.op = op]
<1>4. c \in Calls /\ c.op = op /\ c.player = call[w].player /\ c.timestamp = call[w].timestamp
  BY <1>2 DEF Calls
<1>5. c.alone = call[w].alone
  BY <1>2 DEF Calls
<1>6. call' = [call EXCEPT ![t] = c]
  BY DEF LeavesBehind
<1> HIDE DEF c
<1>7. /\ call' \in [Slots -> Calls \cup {NoCall}] /\ call'[t] = c
      /\ \A v \in Slots \ {t} : call'[v] = call[v]
  BY <1>1, <1>4, <1>6 DEF TypeOK
<1>8. QED
  BY <1>1, <1>2, <1>3, <1>4, <1>5, <1>7

LEMMA TypeStep ==
  ASSUME TypeOK, Found, [Next]_vars
  PROVE  TypeOK'
<1>1. ASSUME NEW w \in Workers, GoesOn(w)
      PROVE  TypeOK'
  <2>1. w \in Slots /\ w \notin Late
    BY AuthAssumption DEF Slots
  <2>2. /\ pc' \in [Slots -> {"idle", "first", "second", "done", "failed", "late"}]
        /\ pc'[w] \in {"second", "done", "failed"}
        /\ \A v \in Slots \ {w} : pc'[v] = pc[v]
    BY <1>1, <2>1 DEF GoesOn, TypeOK
  <2>3. accounts' \subseteq Accounts /\ UNCHANGED <<record, call, now, tokens, told>>
        /\ pc[w] # "idle"
    BY <1>1 DEF GoesOn
  <2>4. QED
    BY <2>1, <2>2, <2>3 DEF TypeOK, Slots
<1>2. ASSUME NEW x \in Slots, Saves(x)
      PROVE  TypeOK'
  <2>1. record' \in [Keys -> Records \cup {NoRecord}]
    BY <1>2, Saved
  <2>2. /\ pc' \in [Slots -> {"idle", "first", "second", "done", "failed", "late"}]
        /\ \A v \in Slots \ {x} : pc'[v] = pc[v] /\ call'[v] = call[v]
        /\ call' \in [Slots -> Calls \cup {NoCall}]
        /\ \/ pc[x] = "second" /\ pc'[x] \in {"done", "failed"} /\ call'[x] = call[x]
           \/ pc[x] = "late" /\ pc'[x] = "idle"
    BY <1>2 DEF Saves, TypeOK
  <2>3. UNCHANGED <<accounts, now, tokens, told>>
    BY <1>2 DEF Saves
  <2>4. QED
    BY <2>1, <2>2, <2>3 DEF TypeOK, Slots
<1>3. ASSUME NEW w \in Workers, NEW t \in Late, NEW op \in Ops \cup {"create"},
             LeavesBehind(w, t, op)
      PROVE  TypeOK'
  <2>1. UNCHANGED <<accounts, record, now, tokens, told>> /\ op # "info"
    BY <1>3 DEF LeavesBehind
  <2>2. \A v \in Workers : pc'[v] # "late" /\ (pc'[v] # "idle" => call'[v].op # "create")
    BY <1>3, LeftBehind, AuthAssumption DEF TypeOK, Slots
  <2>3. \A s \in Late : pc'[s] \in {"idle", "late"} /\ (pc'[s] # "idle" => call'[s].op # "info")
    BY <1>3, <2>1, LeftBehind, AuthAssumption DEF TypeOK, Slots
  <2>4. \A v \in Slots : pc'[v] # "idle" => call'[v] \in Calls
    BY <1>3, LeftBehind DEF TypeOK
  <2>5. QED
    BY <1>3, <2>1, <2>2, <2>3, <2>4, LeftBehind DEF TypeOK
<1>4. ASSUME NEW t \in Late, Ends(t)
      PROVE  TypeOK'
  <2>1. /\ pc' \in [Slots -> {"idle", "first", "second", "done", "failed", "late"}]
        /\ call' \in [Slots -> Calls \cup {NoCall}]
        /\ pc'[t] = "idle"
        /\ \A v \in Slots \ {t} : pc'[v] = pc[v] /\ call'[v] = call[v]
    BY <1>4 DEF Ends, TypeOK, Slots
  <2>2. QED
    BY <1>4, <2>1 DEF Ends, TypeOK, Slots
<1>5. CASE Crash
  <2>1. /\ pc' \in [Slots -> {"idle", "first", "second", "done", "failed", "late"}]
        /\ call' \in [Slots -> Calls \cup {NoCall}]
        /\ \A v \in Workers : pc'[v] = "idle"
        /\ \A v \in Late : pc'[v] = pc[v] /\ call'[v] = call[v]
    BY <1>5, AuthAssumption DEF Crash, TypeOK, Slots
  <2>2. QED
    BY <1>5, <2>1 DEF Crash, TypeOK, Slots
<1>6. CASE UNCHANGED vars
  BY <1>6 DEF vars, TypeOK
<1>7. QED
  BY <1>1, <1>2, <1>3, <1>4, <1>5, <1>6, BeginTyped, AnswerTyped, StepKinds

-----------------------------------------------------------------------------
(* Begin, seen from each thread and late request.                           *)
LEMMA BeginCalls ==
  ASSUME TypeOK, NEW w \in Workers, NEW p \in Players, NEW op \in Ops,
         Begin(w, p, op)
  PROVE  /\ w \in Slots /\ pc[w] = "idle" /\ pc'[w] = "first"
         /\ call'[w].player = p /\ call'[w].op = op /\ call'[w].timestamp = now'
         /\ call'[w].alone => CallsOf(p) = {}
         /\ \A v \in Slots \ {w} : pc'[v] = pc[v]
         /\ \A v \in CallsOf(p) : v \in Slots \ {w} /\ ~call'[v].alone
         /\ \A v \in Slots \ {w} : pc[v] # "idle" =>
              /\ call'[v].player = call[v].player
              /\ call'[v].op = call[v].op
              /\ call'[v].timestamp = call[v].timestamp
              /\ call'[v].alone => v \notin CallsOf(p) /\ call[v].alone
<1>1. w \in Slots /\ pc[w] = "idle" /\ pc'[w] = "first"
      /\ \A v \in Slots \ {w} : pc'[v] = pc[v]
  BY DEF Begin, Goto, TypeOK, Slots
<1>2. w \notin CallsOf(p)
  BY <1>1 DEF CallsOf
<1>3. call'[w] = [op |-> op, player |-> p, timestamp |-> now', alone |-> CallsOf(p) = {}]
  BY <1>1 DEF Begin
<1>4. \A v \in CallsOf(p) : v \in Slots \ {w} /\ call'[v] = [call[v] EXCEPT !.alone = FALSE]
  BY <1>2 DEF Begin, CallsOf
<1>5. \A v \in CallsOf(p) : /\ ~call'[v].alone
                          /\ call'[v].player = call[v].player
                          /\ call'[v].op = call[v].op
                          /\ call'[v].timestamp = call[v].timestamp
  <2> SUFFICES ASSUME NEW v \in CallsOf(p)
               PROVE  /\ ~call'[v].alone
                      /\ call'[v].player = call[v].player
                      /\ call'[v].op = call[v].op
                      /\ call'[v].timestamp = call[v].timestamp
    OBVIOUS
  <2>1. call[v] \in Calls
    BY DEF CallsOf, TypeOK
  <2>2. call'[v] = [call[v] EXCEPT !.alone = FALSE]
    BY <1>4
  <2>3. call'[v].alone = FALSE
    BY <2>1, <2>2 DEF Calls
  <2>4. call'[v].player = call[v].player /\ call'[v].op = call[v].op
    BY <2>1, <2>2 DEF Calls
  <2>5. call'[v].timestamp = call[v].timestamp
    BY <2>1, <2>2 DEF Calls
  <2>6. QED
    BY <2>3, <2>4, <2>5
<1>6. \A v \in Slots \ (CallsOf(p) \cup {w}) : call'[v] = call[v]
  BY DEF Begin
<1>7. call'[w].alone => CallsOf(p) = {}
  <2> DEFINE none == CallsOf(p) = {}
  <2>1. call'[w] = [op |-> op, player |-> p, timestamp |-> now', alone |-> none]
    BY <1>3
  <2> HIDE DEF none
  <2>2. call'[w].alone = none
    BY <2>1
  <2>3. call'[w].alone => none
    BY <2>2
  <2>4. QED
    BY <2>3 DEF none
<1>8. call'[w].player = p /\ call'[w].op = op /\ call'[w].timestamp = now'
  BY <1>3
<1>9. \A v \in Slots \ {w} : pc[v] # "idle" =>
        /\ call'[v].player = call[v].player
        /\ call'[v].op = call[v].op
        /\ call'[v].timestamp = call[v].timestamp
        /\ call'[v].alone => v \notin CallsOf(p) /\ call[v].alone
  BY <1>5, <1>6
<1>10. QED
  BY <1>1, <1>4, <1>5, <1>7, <1>8, <1>9

(* What was found stays found: records are not deleted, and a call gets to  *)
(* a place that needs its record only by seeing or writing it.              *)
LEMMA FoundStep ==
  ASSUME TypeOK, Found, [Next]_vars
  PROVE  Found'
<1> DEFINE Needs(x) == \/ pc[x] \in {"second", "late"} /\ call[x].op \in {"logout", "activity"}
                       \/ pc[x] = "done"
<1>1. \A j \in Keys : record[j] # NoRecord => record'[j] # NoRecord
  BY RecordsStay
<1>2. ASSUME NEW c \in Calls
      PROVE  KeyFor(c.op, c.player) \in Keys
  BY <1>2, AuthAssumption DEF KeyFor, LoginKey, Calls
<1>3. \A x \in Slots : pc[x] # "idle" => KeyUsed(x) \in Keys
  BY <1>2 DEF TypeOK, KeyUsed
<1>4. UNCHANGED tokens => TokensFindRecords'
  <2>1. \A p \in Players : LoginKey(p) \in Keys
    BY AuthAssumption DEF LoginKey
  <2>2. QED
    BY <1>1, <2>1 DEF Found, TokensFindRecords, Shown, LoginKey, TypeOK
<1>5. ASSUME NEW w \in Workers, GoesOn(w)
      PROVE  Found'
  <2>1. w \in Slots /\ UNCHANGED <<record, call, tokens>> /\ pc[w] # "idle"
        /\ \A v \in Slots \ {w} : pc'[v] = pc[v]
    BY <1>5 DEF GoesOn, TypeOK, Slots
  <2>2. Needs(w)' => record[KeyUsed(w)] # NoRecord
    BY <1>5, <2>1 DEF GoesOn, TypeOK
  <2>3. QED
    BY <1>4, <2>1, <2>2 DEF Found, KeyUsed
<1>6. ASSUME NEW x \in Slots, Saves(x)
      PROVE  Found'
  <2>1. /\ UNCHANGED tokens /\ pc[x] # "idle"
        /\ \A v \in Slots \ {x} : pc'[v] = pc[v] /\ call'[v] = call[v]
        /\ \/ pc'[x] \in {"done", "failed"} /\ call'[x] = call[x]
           \/ pc'[x] = "idle"
    BY <1>6 DEF Saves, TypeOK
  <2>2. Needs(x)' => record'[KeyUsed(x)] # NoRecord /\ call'[x] = call[x]
    BY <1>6, <2>1, Saved
  <2>3. \A v \in Slots \ {x} : Needs(v)' => Needs(v) /\ pc[v] # "idle"
    BY <2>1
  <2>4. QED
    BY <1>1, <1>3, <1>4, <2>1, <2>2, <2>3 DEF Found, KeyUsed
<1>7. ASSUME NEW w \in Workers, NEW t \in Late, NEW op \in Ops \cup {"create"},
             LeavesBehind(w, t, op)
      PROVE  Found'
  <2>1. UNCHANGED <<record, tokens>>
    BY <1>7 DEF LeavesBehind
  <2>2. \A v \in Slots \ {w, t} : pc'[v] = pc[v] /\ call'[v] = call[v]
    BY <1>7, LeftBehind
  <2>3. ~Needs(w)'
    BY <1>7, LeftBehind
  <2>4. Needs(t)' => record[KeyUsed(t)'] # NoRecord
    <3>1. SUFFICES ASSUME op \in {"logout", "activity"}
                   PROVE  record[KeyUsed(t)'] # NoRecord
      BY <1>7, LeftBehind
    <3>2. pc[w] = "second" /\ call[w].op = op
      BY <1>7, <3>1 DEF LeavesBehind
    <3>3. call'[t].op = call[w].op /\ call'[t].player = call[w].player
      BY <1>7, <3>2, LeftBehind
    <3>4. QED
      BY <1>7, <3>1, <3>2, <3>3, LeftBehind DEF Found, KeyUsed
  <2>5. QED
    BY <1>4, <2>1, <2>2, <2>3, <2>4 DEF Found, KeyUsed
<1>8. ASSUME NEW t \in Late, Ends(t)
      PROVE  Found'
  <2>1. /\ t \in Slots /\ UNCHANGED <<record, tokens>> /\ pc'[t] = "idle"
        /\ \A v \in Slots \ {t} : pc'[v] = pc[v] /\ call'[v] = call[v]
    BY <1>8 DEF Ends, TypeOK, Slots
  <2>2. QED
    BY <1>4, <2>1 DEF Found, KeyUsed
<1>9. ASSUME NEW w \in Workers, Answer(w)
      PROVE  Found'
  <2>1. /\ w \in Slots /\ UNCHANGED record /\ pc'[w] = "idle"
        /\ \A v \in Slots \ {w} : pc'[v] = pc[v] /\ call'[v] = call[v]
    BY <1>9 DEF Answer, Goto, TypeOK, Slots
  <2>2. TokensFindRecords'
    <3>1. ASSUME pc[w] = "done", call[w].op = "login"
          PROVE  Shown(call[w].player) # NoRecord
      BY <2>1, <3>1 DEF Found, KeyUsed, KeyFor, Shown
    <3>2. \A p \in tokens' : Shown(p) # NoRecord
      BY <1>9, <3>1 DEF Answer, Found, TokensFindRecords
    <3>3. QED
      BY <2>1, <3>2 DEF TokensFindRecords, Shown, LoginKey
  <2>3. QED
    BY <2>1, <2>2 DEF Found, KeyUsed
<1>10. ASSUME NEW w \in Workers, NEW p \in Players, NEW op \in Ops, Begin(w, p, op)
      PROVE  Found'
  <2>1. UNCHANGED <<record, tokens>>
    BY <1>10 DEF Begin
  <2>2. ~Needs(w)'
    BY <1>10, BeginCalls
  <2>3. \A v \in Slots \ {w} : Needs(v)' => Needs(v) /\ KeyUsed(v)' = KeyUsed(v)
    BY <1>10, BeginCalls DEF KeyUsed
  <2>4. QED
    BY <1>4, <2>1, <2>2, <2>3 DEF Found
<1>11. CASE Crash
  <2>1. /\ UNCHANGED <<record, tokens>>
        /\ \A v \in Slots : pc'[v] = "idle" \/ (pc'[v] = pc[v] /\ call'[v] = call[v])
    BY <1>11 DEF Crash
  <2>2. QED
    BY <1>4, <2>1 DEF Found, KeyUsed
<1>12. CASE UNCHANGED vars
  BY <1>4, <1>12 DEF vars, Found, KeyUsed
<1>13. QED
  BY <1>5, <1>6, <1>7, <1>8, <1>9, <1>10, <1>11, <1>12, StepKinds

LEMMA TypedAndFound == Spec => [](TypeOK /\ Found)
<1>1. Init => TypeOK
  BY AuthAssumption DEF Init, TypeOK, Slots
<1>2. Init => Found
  BY DEF Init, Found, TokensFindRecords
<1>3. TypeOK /\ Found /\ [Next]_vars => (TypeOK /\ Found)'
  BY TypeStep, FoundStep
<1>4. QED
  BY <1>1, <1>2, <1>3, PTL DEF Spec

(* The authentication service is well typed in every reachable state.       *)
THEOREM AuthTyped == Spec => []TypeOK
  BY TypedAndFound, PTL

(* GetPlayerInfo never meets a player without a record, whatever fails,     *)
(* whatever lands late and whoever shares a key.                            *)
THEOREM TokensHaveRecords == Spec => []TokensFindRecords
<1>1. Found => TokensFindRecords
  BY DEF Found
<1>2. QED
  BY <1>1, TypedAndFound, PTL

-----------------------------------------------------------------------------
(* A call that counts as alone is the only one of its player, its own late  *)
(* request after a failure apart.                                           *)
Alone == \A x, y \in Slots :
           /\ x # y /\ pc[x] \notin {"idle", "failed"} /\ pc[y] # "idle"
           /\ call[x].alone /\ call[x].player = call[y].player
           => pc[x] = "late" /\ pc[y] = "failed"

(* No call loses that by what another one does, short of beginning.         *)
LEMMA AloneKept ==
  ASSUME Alone, NEW x \in Slots,
         \/ pc'[x] = "idle"
         \/ pc[x] \in {"first", "second"} /\ pc'[x] # "late" /\ call'[x] = call[x],
         \A v \in Slots \ {x} : pc'[v] = pc[v] /\ call'[v] = call[v]
  PROVE  Alone'
<1> SUFFICES ASSUME NEW u \in Slots, NEW v \in Slots,
                    u # v, pc'[u] \notin {"idle", "failed"}, pc'[v] # "idle",
                    call'[u].alone, call'[u].player = call'[v].player
             PROVE  pc'[u] = "late" /\ pc'[v] = "failed"
  BY DEF Alone
<1>1. /\ u = x => pc[x] \in {"first", "second"} /\ call'[x] = call[x]
      /\ v = x => pc[x] \in {"first", "second"} /\ call'[x] = call[x]
      /\ u # x => pc'[u] = pc[u] /\ call'[u] = call[u]
      /\ v # x => pc'[v] = pc[v] /\ call'[v] = call[v]
  OBVIOUS
<1>2. call[u].alone /\ call[u].player = call[v].player
  BY <1>1
<1>3. pc[u] \notin {"idle", "failed"} /\ pc[v] # "idle"
  BY <1>1
<1>4. pc[u] = "late" /\ pc[v] = "failed"
  BY <1>2, <1>3 DEF Alone
<1>5. QED
  BY <1>1, <1>4

LEMMA AloneStep ==
  ASSUME TypeOK, Found, Alone, [Next]_vars
  PROVE  Alone'
<1>1. ASSUME NEW w \in Workers, GoesOn(w)
      PROVE  Alone'
  <2>1. /\ w \in Slots /\ UNCHANGED call /\ pc[w] \in {"first", "second"}
        /\ pc'[w] \in {"second", "failed", "done"}
        /\ \A v \in Slots \ {w} : pc'[v] = pc[v] /\ call'[v] = call[v]
    BY <1>1 DEF GoesOn, TypeOK, Slots
  <2>2. QED
    BY <2>1, AloneKept
<1>2. ASSUME NEW x \in Slots, Saves(x)
      PROVE  Alone'
  <2>1. /\ \A v \in Slots \ {x} : pc'[v] = pc[v] /\ call'[v] = call[v]
        /\ \/ pc[x] = "second" /\ pc'[x] \in {"done", "failed"} /\ UNCHANGED call
           \/ pc'[x] = "idle"
    BY <1>2 DEF Saves, TypeOK
  <2>2. QED
    BY <2>1, AloneKept
<1>3. ASSUME NEW w \in Workers, NEW t \in Late, NEW op \in Ops \cup {"create"},
             LeavesBehind(w, t, op)
      PROVE  Alone'
  <2> SUFFICES ASSUME NEW x \in Slots, NEW y \in Slots,
                      x # y, pc'[x] \notin {"idle", "failed"}, pc'[y] # "idle",
                      call'[x].alone, call'[x].player = call'[y].player
               PROVE  pc'[x] = "late" /\ pc'[y] = "failed"
    BY DEF Alone
  <2>1. x # w /\ pc[w] \in {"first", "second"}
    BY <1>3, LeftBehind
  <2>2. CASE x = t /\ y = w
    BY <1>3, <2>2, LeftBehind
  <2>3. CASE x = t /\ y # w
    <3>1. call[w].alone /\ call[y].player = call[w].player /\ pc[y] # "idle" /\ w \in Slots
      BY <1>3, <2>3, LeftBehind
    <3>2. QED
      BY <2>1, <2>3, <3>1 DEF Alone
  <2>4. CASE x # t
    <3>1. /\ pc[x] \notin {"idle", "failed"} /\ call[x].alone /\ w \in Slots
          /\ y \in {w, t} => call[w].player = call[x].player
          /\ y \notin {w, t} => pc'[y] = pc[y] /\ call'[y] = call[y]
          /\ pc'[x] = pc[x] /\ call'[x] = call[x]
      BY <1>3, <2>1, <2>4, LeftBehind
    <3>2. y \notin {w, t}
      BY <2>1, <3>1 DEF Alone
    <3>3. QED
      BY <3>1, <3>2 DEF Alone
  <2>5. QED
    BY <2>2, <2>3, <2>4
<1>4. ASSUME NEW t \in Late, Ends(t)
      PROVE  Alone'
  <2>1. /\ t \in Slots /\ pc'[t] = "idle"
        /\ \A v \in Slots \ {t} : pc'[v] = pc[v] /\ call'[v] = call[v]
    BY <1>4 DEF Ends, TypeOK, Slots
  <2>2. QED
    BY <2>1, AloneKept
<1>5. ASSUME NEW w \in Workers, Answer(w)
      PROVE  Alone'
  <2>1. /\ w \in Slots /\ pc'[w] = "idle"
        /\ \A v \in Slots \ {w} : pc'[v] = pc[v] /\ call'[v] = call[v]
    BY <1>5 DEF Answer, Goto, TypeOK, Slots
  <2>2. QED
    BY <2>1, AloneKept
<1>6. ASSUME NEW w \in Workers, NEW p \in Players, NEW op \in Ops, Begin(w, p, op)
      PROVE  Alone'
  <2> SUFFICES ASSUME NEW x \in Slots, NEW y \in Slots,
                      x # y, pc'[x] \notin {"idle", "failed"}, pc'[y] # "idle",
                      call'[x].alone, call'[x].player = call'[y].player
               PROVE  pc'[x] = "late" /\ pc'[y] = "failed"
    BY DEF Alone
  <2>1. CASE x = w
    <3>1. pc[y] # "idle" /\ call[y].player = p
      BY <1>6, <2>1, BeginCalls
    <3>2. QED
      BY <1>6, <2>1, <3>1, BeginCalls DEF CallsOf
  <2>2. CASE x # w
    <3>1. pc[x] = pc'[x] /\ call[x].player # p /\ call[x].alone
          /\ call'[x].player = call[x].player
      BY <1>6, <2>2, BeginCalls DEF CallsOf
    <3>2. call'[w].player = p
      BY <1>6, BeginCalls
    <3>3. y # w
      BY <3>1, <3>2
    <3>4. pc[y] = pc'[y] /\ call'[y].player = call[y].player
      BY <1>6, <3>3, BeginCalls
    <3>5. QED
      BY <3>1, <3>4 DEF Alone
  <2>3. QED
    BY <2>1, <2>2
<1>7. CASE Crash
  <2>1. \A v \in Slots : pc'[v] = "idle" \/ (pc'[v] = pc[v] /\ call'[v] = call[v])
    BY <1>7 DEF Crash
  <2>2. QED
    BY <2>1 DEF Alone
<1>8. CASE UNCHANGED vars
  BY <1>8 DEF vars, Alone
<1>9. QED
  BY <1>1, <1>2, <1>3, <1>4, <1>5, <1>6, <1>7, <1>8, StepKinds

(* Keys told apart: what is written for one player is not seen by another.  *)
LEMMA SavedApart ==
  ASSUME KeysDistinct, TypeOK, Found, NEW x \in Slots, Saves(x)
  PROVE  \A q \in Players \ {call[x].player} :
           \A k \in KeysOf(q) : k \in Keys /\ record'[k] = record[k]
<1> SUFFICES ASSUME NEW q \in Players, q # call[x].player, NEW k \in KeysOf(q)
             PROVE  k \in Keys /\ record'[k] = record[k]
  OBVIOUS
<1>1. k \in Keys
  BY AuthAssumption DEF KeysOf, LoginKey
<1>2. call[x].player \in Players /\ KeyUsed(x) \in KeysOf(call[x].player)
  BY Saved
<1>3. k # KeyUsed(x)
  BY <1>2 DEF KeysDistinct
<1>4. QED
  BY <1>1, <1>3, Saved

(* A write comes with no call of the same player that is alone and has not  *)
(* failed.                                                                  *)
LEMMA SavedAlone ==
  ASSUME TypeOK, Found, Alone, NEW x \in Slots, Saves(x),
         NEW v \in Slots, v # x, pc[v] \notin {"idle", "failed"}, call[v].alone
  PROVE  call[v].player \in Players \ {call[x].player}
<1>1. pc[x] \in {"second", "late"}
  BY DEF Saves
<1>2. call[v].player \in Players
  BY DEF TypeOK, Calls
<1>3. QED
  BY <1>1, <1>2 DEF Alone

-----------------------------------------------------------------------------
(* Sessions.  While a call that may change the session of a player is under *)
(* way, or late, nothing is said of the session.                            *)
Pending == \A x \in Slots : pc[x] # "idle" /\ Changes(call[x].op) =>
             told[call[x].player] = "unsure"

(* What a call that was alone has written is still there when it answers.   *)
Written == \A x \in Slots :
             pc[x] = "done" /\ call[x].alone /\ Changes(call[x].op) =>
               (record[KeyUsed(x)].loggedIn <=> call[x].op = "login")

(* Only logins write the record that is shown of an address with capitals.  *)
CapitalsIn == \A p \in Players : ~Plain(p) /\ Shown(p) # NoRecord => Shown(p).loggedIn

SessionInv == Alone /\ Pending /\ Written /\ AnswersStand /\ CapitalsIn

(* What the session of a player becomes by a write.                         *)
LEMMA SessionWritten ==
  ASSUME NEW c \in Calls, c.op \in {"register", "login", "logout", "activity"}, NEW r,
         c.op \in {"logout", "activity"} => r \in Records
  PROVE  /\ Changes(c.op) => (Updated(r, c).loggedIn <=> c.op = "login")
         /\ c.op = "activity" => Updated(r, c).loggedIn = r.loggedIn
<1>1. CASE c.op = "register"
  BY <1>1 DEF Updated
<1>2. CASE c.op = "login"
  BY <1>2 DEF Updated
<1>3. CASE c.op = "logout"
  BY <1>3 DEF Updated, Records
<1>4. CASE c.op = "activity"
  BY <1>4 DEF Updated, Changes, Records
<1>5. QED
  BY <1>1, <1>2, <1>3, <1>4

LEMMA SessionSave ==
  ASSUME KeysDistinct, TypeOK, Found, SessionInv, Alone', NEW x \in Slots, Saves(x)
  PROVE  SessionInv'
<1> DEFINE p == call[x].player
           k == KeyUsed(x)
           r == record[k]
<1>1. /\ UNCHANGED <<told, tokens>>
      /\ pc[x] \in {"second", "late"}
      /\ \/ pc'[x] \in {"done", "failed"} /\ call'[x] = call[x]
         \/ pc'[x] = "idle"
      /\ \A v \in Slots \ {x} : pc'[v] = pc[v] /\ call'[v] = call[v]
      /\ call[x].op \in {"register", "login", "logout", "activity"}
  BY DEF Saves, TypeOK
<1>2. /\ call[x] \in Calls /\ p \in Players /\ k \in Keys
      /\ call[x].op \in {"logout", "activity"} => r \in Records
      /\ record'[k] = Updated(r, call[x]) /\ record'[k] # NoRecord
      /\ \A j \in Keys \ {k} : record'[j] = record[j]
  BY Saved
<1>3. \A q \in Players \ {p} : \A j \in KeysOf(q) : record'[j] = record[j]
  BY SavedApart
<1>4. \A q \in Players : LoginKey(q) \in KeysOf(q) /\ LoginKey(q) \in Keys
  BY AuthAssumption DEF KeysOf, LoginKey
<1>5. /\ Changes(call[x].op) => (record'[k].loggedIn <=> call[x].op = "login")
      /\ call[x].op = "activity" => record'[k].loggedIn = r.loggedIn
  BY <1>1, <1>2, SessionWritten
<1>6. Pending'
  BY <1>1 DEF SessionInv, Pending
<1>7. Written'
  <2>1. ASSUME NEW v \in Slots \ {x}, pc[v] = "done", call[v].alone, Changes(call[v].op)
        PROVE  record'[KeyUsed(v)] = record[KeyUsed(v)]
    <3>1. call[v].player \in Players \ {p}
      BY <2>1, SavedAlone DEF SessionInv
    <3>2. KeyUsed(v) \in KeysOf(call[v].player)
      BY DEF KeyUsed, KeyFor, KeysOf
    <3>3. QED
      BY <1>3, <3>1, <3>2
  <2>2. ASSUME NEW v \in Slots, pc'[v] = "done", call'[v].alone, Changes(call'[v].op)
        PROVE  record'[KeyUsed(v)].loggedIn <=> call[v].op = "login"
    <3>1. CASE v = x
      BY <1>1, <1>5, <2>2, <3>1
    <3>2. CASE v # x
      <4>1. pc[v] = "done" /\ call[v].alone /\ Changes(call[v].op)
        BY <1>1, <2>2, <3>2
      <4>2. record[KeyUsed(v)].loggedIn <=> call[v].op = "login"
        BY <4>1 DEF SessionInv, Written
      <4>3. QED
        BY <2>1, <3>2, <4>1, <4>2
    <3>3. QED
      BY <3>1, <3>2
  <2>3. \A v \in Slots : pc'[v] = "done" => KeyUsed(v)' = KeyUsed(v) /\ call'[v] = call[v]
    BY <1>1 DEF KeyUsed
  <2>4. QED
    BY <2>2, <2>3 DEF Written
<1>8. AnswersStand'
  <2>1. ASSUME NEW q \in Players, told[q] = "in" \/ (told[q] = "out" /\ Plain(q))
        PROVE  record'[LoginKey(q)] = record[LoginKey(q)]
               \/ (/\ record'[LoginKey(q)] # NoRecord
                   /\ record'[LoginKey(q)].loggedIn = record[LoginKey(q)].loggedIn)
    <3>1. CASE q # p
      BY <1>3, <1>4, <3>1
    <3>2. CASE q = p
      <4>1. call[x].op = "activity"
        BY <1>1, <2>1, <3>2 DEF SessionInv, Pending, Changes
      <4>2. QED
        BY <1>2, <1>4, <1>5, <4>1
    <3>3. QED
      BY <3>1, <3>2
  <2>2. ASSUME NEW q \in Players
        PROVE  /\ told[q] = "in" => ShownIn(q)'
               /\ told[q] = "out" /\ Plain(q) => ShownOut(q)'
    BY <2>1 DEF SessionInv, AnswersStand, ShownIn, ShownOut, Shown, LoginKey
  <2>3. QED
    BY <1>1, <2>2 DEF AnswersStand, Plain, LoginKey
<1>9. CapitalsIn'
  <2>1. ASSUME NEW q \in Players, ~Plain(q), record'[LoginKey(q)] # NoRecord
        PROVE  record'[LoginKey(q)].loggedIn
    <3>1. CASE record'[LoginKey(q)] = record[LoginKey(q)]
      BY <2>1, <3>1 DEF SessionInv, CapitalsIn, Shown
    <3>2. CASE record'[LoginKey(q)] # record[LoginKey(q)]
      <4>1. q = p /\ LoginKey(q) = k
        BY <1>2, <1>3, <1>4, <3>2
      <4>2. call[x].op = "login"
        BY <1>1, <2>1, <4>1 DEF KeyUsed, KeyFor, Plain
      <4>3. QED
        BY <1>5, <4>1, <4>2 DEF Changes
    <3>3. QED
      BY <3>1, <3>2
  <2>2. QED
    BY <2>1 DEF CapitalsIn, Shown, Plain, LoginKey
<1>10. QED
  BY <1>6, <1>7, <1>8, <1>9 DEF SessionInv

LEMMA SessionAnswer ==
  ASSUME TypeOK, Found, SessionInv, Alone', NEW w \in Workers, Answer(w)
  PROVE  SessionInv'
<1> DEFINE p == call[w].player
<1>1. /\ w \in Slots /\ pc[w] \in {"done", "failed"} /\ pc'[w] = "idle"
      /\ \A v \in Slots \ {w} : pc'[v] = pc[v] /\ call'[v] = call[v]
      /\ UNCHANGED record
      /\ p \in Players
  BY DEF Answer, Goto, TypeOK, Calls, Slots
<1>2. \A q \in Players \ {p} : told'[q] = told[q]
  BY <1>1 DEF Answer, TypeOK
<1>3. told'[p] = IF ~call[w].alone THEN "unsure"
                 ELSE IF pc[w] = "done" /\ Changes(call[w].op)
                      THEN IF call[w].op = "login" THEN "in" ELSE "out"
                      ELSE told[p]
  BY <1>1 DEF Answer, TypeOK
<1>4. Written'
  BY <1>1 DEF SessionInv, Written, KeyUsed
<1>5. Pending'
  <2>1. ASSUME NEW v \in Slots \ {w}, pc[v] # "idle", Changes(call[v].op)
        PROVE  told'[call[v].player] = "unsure"
    <3>1. call[v].player \in Players /\ told[call[v].player] = "unsure"
      BY <2>1 DEF SessionInv, Pending, TypeOK, Calls
    <3>2. CASE call[v].player # p
      BY <1>2, <3>1, <3>2
    <3>3. CASE call[v].player = p
      <4>1. ~(call[w].alone /\ pc[w] = "done")
        BY <1>1, <2>1, <3>3 DEF SessionInv, Alone
      <4>2. QED
        BY <1>1, <1>3, <3>1, <3>3, <4>1
    <3>4. QED
      BY <3>2, <3>3
  <2>2. QED
    BY <1>1, <2>1 DEF Pending
<1>6. AnswersStand'
  <2>1. /\ told'[p] = "in" => ShownIn(p)
        /\ told'[p] = "out" /\ Plain(p) => ShownOut(p)
    <3>1. CASE call[w].alone /\ pc[w] = "done" /\ Changes(call[w].op)
      <4>1. told'[p] = IF call[w].op = "login" THEN "in" ELSE "out"
        BY <1>3, <3>1
      <4>2. record[KeyUsed(w)] # NoRecord
        BY <1>1, <3>1 DEF Found
      <4>3. record[KeyUsed(w)].loggedIn <=> call[w].op = "login"
        BY <1>1, <3>1 DEF SessionInv, Written
      <4>4. call[w].op = "login" \/ Plain(p) => KeyUsed(w) = LoginKey(p)
        BY DEF KeyUsed, KeyFor, Plain
      <4>5. QED
        BY <4>1, <4>2, <4>3, <4>4 DEF ShownIn, ShownOut, Shown
    <3>2. CASE ~(call[w].alone /\ pc[w] = "done" /\ Changes(call[w].op))
      <4>1. told'[p] \in {told[p], "unsure"}
        BY <1>3, <3>2
      <4>2. QED
        BY <1>1, <4>1 DEF SessionInv, AnswersStand
    <3>3. QED
      BY <3>1, <3>2
  <2>2. \A q \in Players : /\ told'[q] = "in" => ShownIn(q)
                           /\ told'[q] = "out" /\ Plain(q) => ShownOut(q)
    BY <1>2, <2>1 DEF SessionInv, AnswersStand
  <2>3. QED
    BY <1>1, <2>2 DEF AnswersStand, ShownIn, ShownOut, Shown, Plain, LoginKey
<1>7. CapitalsIn'
  BY <1>1 DEF SessionInv, CapitalsIn, Shown, Plain, LoginKey
<1>8. QED
  BY <1>4, <1>5, <1>6, <1>7 DEF SessionInv

LEMMA SessionBegin ==
  ASSUME TypeOK, SessionInv, Alone',
         NEW w \in Workers, NEW p \in Players, NEW op \in Ops, Begin(w, p, op)
  PROVE  SessionInv'
<1>1. UNCHANGED record
  BY DEF Begin
<1>2. /\ \A q \in Players \ {p} : told'[q] = told[q]
      /\ told'[p] \in {told[p], "unsure"}
      /\ Changes(op) \/ CallsOf(p) # {} => told'[p] = "unsure"
  BY DEF Begin, TypeOK
<1>3. /\ w \in Slots /\ pc'[w] = "first" /\ call'[w].player = p /\ call'[w].op = op
      /\ \A v \in Slots \ {w} : pc'[v] = pc[v]
  BY BeginCalls
<1>4. \A v \in Slots \ {w} : pc[v] # "idle" =>
        /\ call'[v].player = call[v].player /\ call'[v].op = call[v].op
        /\ call'[v].alone => call[v].alone
  BY BeginCalls
<1>5. Written'
  <2>1. ASSUME NEW v \in Slots, pc'[v] = "done", call'[v].alone
        PROVE  /\ pc[v] = "done" /\ call[v].alone
               /\ call'[v].player = call[v].player /\ call'[v].op = call[v].op
    BY <1>3, <1>4, <2>1
  <2>2. QED
    BY <1>1, <2>1 DEF SessionInv, Written, KeyUsed
<1>6. Pending'
  <2>1. ASSUME NEW v \in Slots, pc'[v] # "idle", Changes(call'[v].op)
        PROVE  told'[call'[v].player] = "unsure"
    <3>1. CASE v = w
      BY <1>2, <1>3, <2>1, <3>1
    <3>2. CASE v # w
      <4>1. pc[v] # "idle" /\ call'[v].player = call[v].player /\ call'[v].op = call[v].op
        BY <1>3, <1>4, <2>1, <3>2
      <4>2. call[v].player \in Players /\ told[call[v].player] = "unsure"
        BY <2>1, <4>1 DEF SessionInv, Pending, TypeOK, Calls
      <4>3. QED
        BY <1>2, <4>1, <4>2
    <3>3. QED
      BY <3>1, <3>2
  <2>2. QED
    BY <2>1 DEF Pending
<1>7. AnswersStand'
  BY <1>1, <1>2 DEF SessionInv, AnswersStand, ShownIn, ShownOut, Shown, Plain, LoginKey
<1>8. CapitalsIn'
  BY <1>1 DEF SessionInv, CapitalsIn, Shown, Plain, LoginKey
<1>9. QED
  BY <1>5, <1>6, <1>7, <1>8 DEF SessionInv

(* The steps that write nothing and answer nobody.                          *)
LEMMA SessionQuiet ==
  ASSUME TypeOK, SessionInv, Alone', UNCHANGED <<record, told>>,
         \A v \in Slots :
           \/ pc'[v] = "idle"
           \/ /\ call'[v] = call[v] /\ pc[v] # "idle"
              /\ pc'[v] = "done" => pc[v] = "done" \/ ~Changes(call[v].op)
           \/ /\ pc'[v] = "late"
              /\ Changes(call'[v].op) => told[call'[v].player] = "unsure"
  PROVE  SessionInv'
<1>1. Written'
  <2>1. \A v \in Slots : pc'[v] = "done" /\ call'[v].alone /\ Changes(call'[v].op) =>
          pc[v] = "done" /\ call'[v] = call[v]
    OBVIOUS
  <2>2. QED
    BY <2>1 DEF SessionInv, Written, KeyUsed
<1>2. Pending'
  BY DEF SessionInv, Pending
<1>3. AnswersStand' /\ CapitalsIn'
  BY DEF SessionInv, AnswersStand, CapitalsIn, ShownIn, ShownOut, Shown, Plain, LoginKey
<1>4. QED
  BY <1>1, <1>2, <1>3 DEF SessionInv

LEMMA SessionStep ==
  ASSUME KeysDistinct, TypeOK, Found, SessionInv, [Next]_vars
  PROVE  SessionInv'
<1>1. Alone'
  BY AloneStep DEF SessionInv
<1> DEFINE Kept(v) == \/ pc'[v] = "idle"
                      \/ /\ call'[v] = call[v] /\ pc[v] # "idle"
                         /\ pc'[v] = "done" => pc[v] = "done" \/ ~Changes(call[v].op)
                      \/ /\ pc'[v] = "late"
                         /\ Changes(call'[v].op) => told[call'[v].player] = "unsure"
<1>2. ASSUME NEW w \in Workers, GoesOn(w)
      PROVE  SessionInv'
  <2>1. UNCHANGED <<record, told>>
    BY <1>2 DEF GoesOn
  <2>2. \A v \in Slots : Kept(v)
    BY <1>2 DEF GoesOn, TypeOK, Slots, Changes
  <2>3. QED
    BY <1>1, <2>1, <2>2, SessionQuiet
<1>3. ASSUME NEW w \in Workers, NEW t \in Late, NEW op \in Ops \cup {"create"},
             LeavesBehind(w, t, op)
      PROVE  SessionInv'
  <2>1. UNCHANGED <<record, told>>
    BY <1>3 DEF LeavesBehind
  <2>2. \A v \in Slots \ {w, t} : Kept(v)
    BY <1>3, LeftBehind
  <2>3. Kept(w)
    BY <1>3, LeftBehind
  <2>4. Kept(t)
    <3>1. SUFFICES ASSUME Changes(op)
                   PROVE  told[call[w].player] = "unsure"
      BY <1>3, LeftBehind
    <3>2. op = call[w].op
      BY <1>3, <3>1 DEF LeavesBehind, Changes
    <3>3. QED
      BY <1>3, <3>1, <3>2, LeftBehind DEF SessionInv, Pending
  <2>5. \A v \in Slots : Kept(v)
    BY <2>2, <2>3, <2>4
  <2>6. QED
    BY <1>1, <2>1, <2>5, SessionQuiet
<1>4. ASSUME NEW t \in Late, Ends(t)
      PROVE  SessionInv'
  <2>1. UNCHANGED <<record, told>>
    BY <1>4 DEF Ends
  <2>2. \A v \in Slots : Kept(v)
    BY <1>4 DEF Ends, TypeOK, Slots
  <2>3. QED
    BY <1>1, <2>1, <2>2, SessionQuiet
<1>5. CASE Crash
  <2>1. UNCHANGED <<record, told>>
    BY <1>5 DEF Crash
  <2>2. \A v \in Slots : Kept(v)
    BY <1>5 DEF Crash
  <2>3. QED
    BY <1>1, <2>1, <2>2, SessionQuiet
<1>6. CASE UNCHANGED vars
  <2>1. UNCHANGED <<record, told>>
    BY <1>6 DEF vars
  <2>2. \A v \in Slots : Kept(v)
    BY <1>6 DEF vars
  <2>3. QED
    BY <1>1, <2>1, <2>2, SessionQuiet
<1>7. QED
  BY <1>1, <1>2, <1>3, <1>4, <1>5, <1>6, SessionSave, SessionAnswer, SessionBegin, StepKinds

LEMMA SessionInvHolds ==
  ASSUME KeysDistinct
  PROVE  Spec => []SessionInv
<1>1. Init => SessionInv
  BY AuthAssumption DEF Init, SessionInv, Alone, Pending, Written, AnswersStand,
                        CapitalsIn, Shown, LoginKey
<1>2. TypeOK /\ Found /\ SessionInv /\ [Next]_vars => SessionInv'
  BY SessionStep
<1>3. QED
  BY <1>1, <1>2, TypedAndFound, PTL DEF Spec

(* When no two players share a key, the record that is shown of a player    *)
(* says what the last login was answered, and for an address without        *)
(* capitals what the last logout or registration was answered, whatever     *)
(* calls overlap, fail, are abandoned or land late after it.                *)
THEOREM AnswersHold ==
  ASSUME KeysDistinct
  PROVE  Spec => []AnswersStand
<1>1. SessionInv => AnswersStand
  BY DEF SessionInv
<1>2. QED
  BY <1>1, SessionInvHolds, PTL

(* When no two players share a key, no logout of an address with capitals   *)
(* ever shows: who has logged in with it once stays shown as logged in.     *)
THEOREM CapitalsShownIn ==
  ASSUME KeysDistinct
  PROVE  Spec => []CapitalsStayIn
<1>1. TypeOK /\ Found /\ SessionInv => CapitalsStayIn
  BY DEF TypeOK, Found, TokensFindRecords, SessionInv, CapitalsIn, CapitalsStayIn, ShownIn
<1>2. QED
  BY <1>1, SessionInvHolds, TypedAndFound, PTL

-----------------------------------------------------------------------------
(* Times.  A record below a typed address belongs to an account, and so     *)
(* does a call that is past the accounts; a registration that is alone      *)
(* finds no record; no time is in the future; and a call that is alone      *)
(* began after the times of both records of its player.                     *)
Registered == /\ \A p \in Players : record[KeyOf[p]] # NoRecord => AccountOf[p] \in accounts
              /\ \A x \in Slots :
                   pc[x] \in {"second", "late"} /\ call[x].op \in {"register", "login"} =>
                     AccountOf[call[x].player] \in accounts

NewPlayers == \A x \in Slots :
                /\ pc[x] \in {"second", "late"}
                /\ call[x].op = "register" /\ call[x].alone
                => record[KeyOf[call[x].player]] = NoRecord

Past == /\ \A k \in Keys : record[k] # NoRecord => record[k].lastActivity <= now
        /\ \A x \in Slots : pc[x] # "idle" => call[x].timestamp <= now

Later == \A x \in Slots :
           pc[x] \notin {"idle", "failed"} /\ call[x].alone =>
             \A k \in KeysOf(call[x].player) :
               record[k] # NoRecord => record[k].lastActivity <= call[x].timestamp

TimeInv == Alone /\ Registered /\ NewPlayers /\ Past /\ Later

(* What the time of a player becomes by a write.                            *)
LEMMA TimeWritten ==
  ASSUME NEW c \in Calls, c.op \in {"register", "login", "logout", "activity"}, NEW r,
         c.op \in {"logout", "activity"} => r \in Records
  PROVE  \/ c.op = "register" /\ Updated(r, c).lastActivity = 0
         \/ Updated(r, c).lastActivity = c.timestamp
         \/ r \in Records /\ Updated(r, c).lastActivity = r.lastActivity
<1>1. CASE c.op = "register"
  BY <1>1 DEF Updated
<1>2. CASE c.op = "login"
  BY <1>2 DEF Updated
<1>3. CASE c.op = "logout"
  BY <1>3 DEF Updated, Records
<1>4. CASE c.op = "activity"
  BY <1>4 DEF Updated, Records
<1>5. QED
  BY <1>1, <1>2, <1>3, <1>4

(* The two keys of a player, and the times that are read there.             *)
LEMMA KeysTyped ==
  ASSUME TypeOK
  PROVE  /\ \A q \in Players : /\ KeyOf[q] \in KeysOf(q) /\ LoginKey(q) \in KeysOf(q)
                               /\ KeysOf(q) \subseteq Keys
         /\ \A k \in Keys : record[k] # NoRecord =>
              record[k] \in Records /\ record[k].lastActivity \in Nat
         /\ \A r \in Records : r # NoRecord /\ r.lastActivity \in Nat
  BY AuthAssumption DEF KeysOf, LoginKey, TypeOK, Records

LEMMA TimeSave ==
  ASSUME KeysDistinct, TypeOK, Found, TimeInv, Alone', NEW x \in Slots, Saves(x)
  PROVE  TimeInv'
<1> DEFINE p == call[x].player
           k == KeyUsed(x)
           r == record[k]
<1>1. /\ UNCHANGED <<accounts, now>>
      /\ pc[x] \in {"second", "late"}
      /\ \/ pc'[x] \in {"done", "failed"} /\ call'[x] = call[x]
         \/ pc'[x] = "idle"
      /\ \A v \in Slots \ {x} : pc'[v] = pc[v] /\ call'[v] = call[v]
      /\ call[x].op \in {"register", "login", "logout", "activity"}
  BY DEF Saves, TypeOK
<1>2. /\ call[x] \in Calls /\ p \in Players /\ k \in Keys /\ k \in KeysOf(p)
      /\ call[x].op \in {"logout", "activity"} => r \in Records
      /\ record'[k] = Updated(r, call[x]) /\ record'[k] \in Records
      /\ \A j \in Keys \ {k} : record'[j] = record[j]
  BY Saved
<1>3. \A q \in Players \ {p} : \A j \in KeysOf(q) : record'[j] = record[j]
  BY SavedApart
<1>4. call[x].timestamp \in Nat /\ call[x].timestamp <= now /\ now \in Nat
  BY <1>1, <1>2 DEF TimeInv, Past, Calls, TypeOK
<1>5. Registered'
  <2>1. AccountOf[p] \in accounts
    <3>1. CASE call[x].op \in {"register", "login"}
      BY <1>1, <3>1 DEF TimeInv, Registered
    <3>2. CASE call[x].op \in {"logout", "activity"}
      <4>1. k = KeyOf[p] /\ record[KeyOf[p]] # NoRecord
        BY <1>1, <1>2, <3>2, KeysTyped DEF KeyUsed, KeyFor
      <4>2. QED
        BY <1>2, <4>1 DEF TimeInv, Registered
    <3>3. QED
      BY <1>1, <3>1, <3>2
  <2>2. \A q \in Players : record'[KeyOf[q]] # NoRecord => AccountOf[q] \in accounts
    <3>1. ASSUME NEW q \in Players, q # p
          PROVE  record'[KeyOf[q]] = record[KeyOf[q]]
      BY <1>3, <3>1, KeysTyped
    <3>2. QED
      BY <2>1, <3>1 DEF TimeInv, Registered
  <2>3. \A v \in Slots : pc'[v] \in {"second", "late"} => pc'[v] = pc[v] /\ call'[v] = call[v]
    BY <1>1
  <2>4. QED
    BY <1>1, <2>2, <2>3 DEF TimeInv, Registered
<1>6. ASSUME NEW v \in Slots, v # x, pc[v] \notin {"idle", "failed"}, call[v].alone
      PROVE  \A j \in KeysOf(call[v].player) : record'[j] = record[j]
  <2>1. call[v].player \in Players \ {p}
    BY <1>6, SavedAlone DEF TimeInv
  <2>2. QED
    BY <1>3, <2>1
<1>7. NewPlayers'
  <2>1. ASSUME NEW v \in Slots, pc'[v] \in {"second", "late"}, call'[v].op = "register",
               call'[v].alone
        PROVE  record'[KeyOf[call'[v].player]] = NoRecord
    <3>1. v # x /\ pc'[v] = pc[v] /\ call'[v] = call[v]
      BY <1>1, <2>1
    <3>2. KeyOf[call[v].player] \in KeysOf(call[v].player)
      BY DEF KeysOf
    <3>3. record'[KeyOf[call[v].player]] = record[KeyOf[call[v].player]]
      BY <1>6, <2>1, <3>1, <3>2
    <3>4. QED
      BY <2>1, <3>1, <3>3 DEF TimeInv, NewPlayers
  <2>2. QED
    BY <2>1 DEF NewPlayers
<1>8. Past'
  <2>1. record'[k].lastActivity <= now
    BY <1>1, <1>2, <1>4, KeysTyped, TimeWritten DEF TimeInv, Past
  <2>2. \A j \in Keys : record'[j] # NoRecord => record'[j].lastActivity <= now
    BY <1>2, <2>1 DEF TimeInv, Past
  <2>3. \A v \in Slots : pc'[v] # "idle" => pc[v] # "idle" /\ call'[v] = call[v]
    BY <1>1
  <2>4. QED
    BY <1>1, <2>2, <2>3 DEF TimeInv, Past
<1>9. Later'
  <2>1. ASSUME NEW v \in Slots, pc'[v] \notin {"idle", "failed"}, call'[v].alone,
               NEW j \in KeysOf(call[v].player), record'[j] # NoRecord
        PROVE  record'[j].lastActivity <= call[v].timestamp /\ call'[v] = call[v]
    <3>1. CASE v = x
      <4>1. call'[v] = call[v] /\ call[x].alone /\ pc[x] \notin {"idle", "failed"}
        BY <1>1, <2>1, <3>1
      <4>2. CASE j # k
        <5>1. record'[j] = record[j]
          BY <1>2, <2>1, <3>1, <4>2, KeysTyped
        <5>2. QED
          BY <2>1, <3>1, <4>1, <5>1 DEF TimeInv, Later
      <4>3. CASE j = k
        <5>1. r # NoRecord => r.lastActivity <= call[x].timestamp
          BY <1>2, <4>1 DEF TimeInv, Later
        <5>2. record'[k].lastActivity <= call[x].timestamp
          BY <1>1, <1>2, <1>4, <5>1, KeysTyped, TimeWritten
        <5>3. QED
          BY <3>1, <4>1, <4>3, <5>2
      <4>4. QED
        BY <4>2, <4>3
    <3>2. CASE v # x
      <4>1. pc'[v] = pc[v] /\ call'[v] = call[v]
        BY <1>1, <3>2
      <4>2. record'[j] = record[j]
        BY <1>6, <2>1, <3>2, <4>1
      <4>3. QED
        BY <2>1, <4>1, <4>2 DEF TimeInv, Later
    <3>3. QED
      BY <3>1, <3>2
  <2>2. \A v \in Slots : pc'[v] \notin {"idle", "failed"} => call'[v] = call[v]
    BY <1>1
  <2>3. QED
    BY <2>1, <2>2 DEF Later, KeysOf, LoginKey
<1>10. QED
  BY <1>5, <1>7, <1>8, <1>9 DEF TimeInv

(* The steps that write nothing: every call stays, ends, or is taken over   *)
(* by a late request.                                                       *)
LEMMA TimeQuiet ==
  ASSUME TypeOK, TimeInv, Alone', UNCHANGED <<record, now>>, accounts \subseteq accounts',
         \A v \in Slots : pc'[v] # "idle" =>
           \E u \in Slots :
             /\ pc[u] # "idle"
             /\ pc[u] = "failed" => pc'[v] = "failed"
             /\ call'[v].player = call[u].player
             /\ call'[v].timestamp = call[u].timestamp
             /\ call'[v].alone => call[u].alone
             /\ pc'[v] \in {"second", "late"} /\ call'[v].op \in {"register", "login"} =>
                  AccountOf[call[u].player] \in accounts'
             /\ pc'[v] \in {"second", "late"} /\ call'[v].op = "register" =>
                  \/ AccountOf[call[u].player] \notin accounts
                  \/ pc[u] \in {"second", "late"} /\ call[u].op = "register"
  PROVE  TimeInv'
<1>1. Registered'
  BY DEF TimeInv, Registered
<1>2. NewPlayers'
  <2>1. ASSUME NEW v \in Slots, pc'[v] \in {"second", "late"}, call'[v].op = "register",
               call'[v].alone
        PROVE  record[KeyOf[call'[v].player]] = NoRecord
    <3>1. PICK u \in Slots :
            /\ pc[u] # "idle" /\ call'[v].player = call[u].player /\ call[u].alone
            /\ \/ AccountOf[call[u].player] \notin accounts
               \/ pc[u] \in {"second", "late"} /\ call[u].op = "register"
      BY <2>1
    <3>2. call[u].player \in Players
      BY <3>1 DEF TypeOK, Calls
    <3>3. QED
      BY <3>1, <3>2 DEF TimeInv, Registered, NewPlayers
  <2>2. QED
    BY <2>1 DEF NewPlayers
<1>3. Past'
  BY DEF TimeInv, Past
<1>4. Later'
  <2>1. ASSUME NEW v \in Slots, pc'[v] \notin {"idle", "failed"}, call'[v].alone,
               NEW k \in KeysOf(call'[v].player), record[k] # NoRecord
        PROVE  record[k].lastActivity <= call'[v].timestamp
    <3>1. PICK u \in Slots :
            /\ pc[u] \notin {"idle", "failed"} /\ call'[v].player = call[u].player
            /\ call'[v].timestamp = call[u].timestamp /\ call[u].alone
      BY <2>1
    <3>2. QED
      BY <2>1, <3>1 DEF TimeInv, Later
  <2>2. QED
    BY <2>1 DEF Later, KeysOf, LoginKey
<1>5. QED
  BY <1>1, <1>2, <1>3, <1>4 DEF TimeInv

LEMMA TimeBegin ==
  ASSUME TypeOK, TimeInv, Alone',
         NEW w \in Workers, NEW p \in Players, NEW op \in Ops, Begin(w, p, op)
  PROVE  TimeInv'
<1>1. UNCHANGED <<accounts, record>> /\ now' \in Nat /\ now <= now'
  BY AuthAssumption DEF Begin, TypeOK
<1>2. \A v \in Slots \ {w} : pc[v] # "idle" =>
        /\ call'[v].player = call[v].player
        /\ call'[v].op = call[v].op
        /\ call'[v].timestamp = call[v].timestamp
        /\ call'[v].alone => call[v].alone
  BY BeginCalls
<1>3. /\ w \in Slots
      /\ pc'[w] = "first" /\ call'[w].player = p /\ call'[w].timestamp = now'
      /\ \A v \in Slots \ {w} : pc'[v] = pc[v]
  BY BeginCalls
<1>4. Registered' /\ NewPlayers'
  BY <1>1, <1>2, <1>3 DEF TimeInv, Registered, NewPlayers
<1>5. \A k \in Keys : record[k] # NoRecord => record[k].lastActivity \in Nat
  BY KeysTyped
<1>6. \A v \in Slots : pc[v] # "idle" => call[v].timestamp \in Nat
  BY DEF TypeOK, Calls
<1>7. now \in Nat
  BY DEF TypeOK
<1>8. \A k \in Keys : record[k] # NoRecord => record[k].lastActivity <= now'
  BY <1>1, <1>5, <1>7 DEF TimeInv, Past
<1>9. Past'
  <2>1. \A v \in Slots : pc'[v] # "idle" => call'[v].timestamp <= now'
    <3>1. ASSUME NEW v \in Slots \ {w}, pc[v] # "idle"
          PROVE  call[v].timestamp <= now'
      <4>1. call[v].timestamp \in Nat /\ call[v].timestamp <= now
        BY <1>6, <3>1 DEF TimeInv, Past
      <4>2. QED
        BY <1>1, <1>7, <4>1
    <3>2. QED
      BY <1>1, <1>2, <1>3, <3>1
  <2>2. QED
    BY <1>1, <1>8, <2>1 DEF Past
<1>10. Later'
  <2>1. ASSUME NEW v \in Slots, pc'[v] \notin {"idle", "failed"}, call'[v].alone,
               NEW k \in KeysOf(call'[v].player), record[k] # NoRecord
        PROVE  record[k].lastActivity <= call'[v].timestamp
    <3>1. CASE v = w
      <4>1. k \in Keys
        BY <1>3, <2>1, <3>1, KeysTyped
      <4>2. QED
        BY <1>3, <1>8, <2>1, <3>1, <4>1
    <3>2. CASE v # w
      BY <1>2, <1>3, <2>1, <3>2 DEF TimeInv, Later
    <3>3. QED
      BY <3>1, <3>2
  <2>2. QED
    BY <1>1, <2>1 DEF Later, KeysOf, LoginKey
<1>11. QED
  BY <1>4, <1>9, <1>10 DEF TimeInv

LEMMA TimeStep ==
  ASSUME KeysDistinct, TypeOK, Found, TimeInv, [Next]_vars
  PROVE  TimeInv'
<1>1. Alone'
  BY AloneStep DEF TimeInv
<1> DEFINE From(v, u) ==
             /\ pc[u] # "idle"
             /\ pc[u] = "failed" => pc'[v] = "failed"
             /\ call'[v].player = call[u].player
             /\ call'[v].timestamp = call[u].timestamp
             /\ call'[v].alone => call[u].alone
             /\ pc'[v] \in {"second", "late"} /\ call'[v].op \in {"register", "login"} =>
                  AccountOf[call[u].player] \in accounts'
             /\ pc'[v] \in {"second", "late"} /\ call'[v].op = "register" =>
                  \/ AccountOf[call[u].player] \notin accounts
                  \/ pc[u] \in {"second", "late"} /\ call[u].op = "register"
<1>2. ASSUME NEW v \in Slots, pc'[v] = pc[v], call'[v] = call[v], pc[v] # "idle",
             accounts \subseteq accounts'
      PROVE  From(v, v)
  BY <1>2 DEF TimeInv, Registered
<1>3. ASSUME NEW w \in Workers, GoesOn(w)
      PROVE  TimeInv'
  <2>1. UNCHANGED <<record, call, now>> /\ accounts \subseteq accounts' /\ w \in Slots
        /\ \A v \in Slots \ {w} : pc'[v] = pc[v] /\ call'[v] = call[v]
    BY <1>3 DEF GoesOn, TypeOK, Slots
  <2>2. From(w, w)
    BY <1>3, <2>1 DEF GoesOn, TypeOK
  <2>3. \A v \in Slots : pc'[v] # "idle" => From(v, v)
    BY <1>2, <2>1, <2>2
  <2>4. QED
    BY <1>1, <2>1, <2>3, TimeQuiet
<1>4. ASSUME NEW w \in Workers, NEW t \in Late, NEW op \in Ops \cup {"create"},
             LeavesBehind(w, t, op)
      PROVE  TimeInv'
  <2>1. UNCHANGED <<accounts, record, now>>
    BY <1>4 DEF LeavesBehind
  <2>2. \A v \in Slots \ {w, t} : pc'[v] # "idle" => From(v, v)
    BY <1>2, <1>4, <2>1, LeftBehind
  <2>3. w \in Slots /\ From(w, w)
    BY <1>4, <2>1, LeftBehind
  <2>4. From(t, w)
    <3>1. op \in {"register", "login"} => pc[w] = "second" /\ op = call[w].op
      BY <1>4 DEF LeavesBehind
    <3>2. op \in {"register", "login"} => AccountOf[call[w].player] \in accounts'
      BY <2>1, <2>3, <3>1 DEF TimeInv, Registered
    <3>3. QED
      BY <1>4, <3>1, <3>2, LeftBehind
  <2>5. \A v \in Slots : pc'[v] # "idle" => \E u \in Slots : From(v, u)
    BY <2>2, <2>3, <2>4
  <2>6. QED
    BY <1>1, <2>1, <2>5, TimeQuiet
<1>5. ASSUME UNCHANGED <<record, now>>, accounts \subseteq accounts',
             \A v \in Slots : pc'[v] = "idle" \/ (pc'[v] = pc[v] /\ call'[v] = call[v])
      PROVE  TimeInv'
  <2>1. \A v \in Slots : pc'[v] # "idle" => From(v, v)
    BY <1>2, <1>5
  <2>2. QED
    BY <1>1, <1>5, <2>1, TimeQuiet
<1>6. ASSUME NEW t \in Late, Ends(t)
      PROVE  TimeInv'
  BY <1>5, <1>6 DEF Ends, TypeOK, Slots
<1>7. ASSUME NEW w \in Workers, Answer(w)
      PROVE  TimeInv'
  BY <1>5, <1>7 DEF Answer, Goto, TypeOK, Slots
<1>8. CASE Crash
  BY <1>5, <1>8 DEF Crash
<1>9. CASE UNCHANGED vars
  BY <1>5, <1>9 DEF vars
<1>10. QED
  BY <1>1, <1>3, <1>4, <1>6, <1>7, <1>8, <1>9, TimeSave, TimeBegin, StepKinds

(* When no two players share a key, only overlapping calls of a player and  *)
(* its late requests turn lastActivity back.                                *)
THEOREM TurnsBackByOverlap ==
  ASSUME KeysDistinct
  PROVE  Spec => OnlyOverlapTurnsBack
<1> DEFINE Step == \A x \in Slots :
             pc[x] \in {"second", "late"} /\ pc'[x] # pc[x] =>
               LET k == KeyUsed(x) IN
               record[k] # NoRecord /\ call[x].alone =>
                 record'[k].lastActivity >= record[k].lastActivity
<1>1. Init => TimeInv
  <2>1. Init => \A k \in Keys : record[k] = NoRecord
    BY DEF Init
  <2>2. \A p \in Players : KeyOf[p] \in Keys
    BY AuthAssumption
  <2>3. QED
    BY <2>1, <2>2 DEF Init, TimeInv, Alone, Registered, NewPlayers, Past, Later
<1>2. TypeOK /\ Found /\ TimeInv /\ [Next]_vars => TimeInv'
  BY TimeStep
<1>3. TypeOK /\ Found /\ TimeInv /\ [Next]_vars => [Step]_vars
  <2> SUFFICES ASSUME TypeOK, Found, TimeInv, [Next]_vars, NEW x \in Slots,
                      pc[x] \in {"second", "late"}, pc'[x] # pc[x],
                      record[KeyUsed(x)] # NoRecord, call[x].alone
               PROVE  record'[KeyUsed(x)].lastActivity >= record[KeyUsed(x)].lastActivity
    OBVIOUS
  <2> DEFINE k == KeyUsed(x)
             r == record[k]
  <2>1. call[x] \in Calls /\ call[x].player \in Players /\ call[x].timestamp \in Nat
    BY DEF TypeOK, Calls
  <2>2. k \in KeysOf(call[x].player)
    BY DEF KeyUsed, KeyFor, KeysOf
  <2>3. r \in Records /\ r.lastActivity \in Nat
    BY <2>1, <2>2, KeysTyped
  <2>4. CASE UNCHANGED record
    BY <2>3, <2>4
  <2>5. CASE Saves(x)
    <3>1. /\ call[x].op \in {"register", "login", "logout", "activity"}
          /\ record'[k] = Updated(r, call[x])
      BY <2>5, Saved DEF Saves
    <3>2. call[x].op # "register"
      BY DEF TimeInv, NewPlayers, KeyUsed, KeyFor
    <3>3. r.lastActivity <= call[x].timestamp
      BY <2>2 DEF TimeInv, Later
    <3>4. Updated(r, call[x]).lastActivity >= r.lastActivity
      BY <2>1, <2>3, <3>1, <3>2, <3>3, TimeWritten
    <3>5. QED
      BY <3>1, <3>4
  <2>6. \A y \in Slots \ {x} : ~Saves(y)
    BY DEF Saves, TypeOK
  <2>7. QED
    BY <2>4, <2>5, <2>6, StepKinds DEF GoesOn, LeavesBehind, Ends, Begin, Answer, Crash, vars
<1>4. Spec => [][Step]_vars
  BY <1>1, <1>2, <1>3, TypedAndFound, PTL DEF Spec
<1>5. QED
  BY <1>4 DEF OnlyOverlapTurnsBack

-----------------------------------------------------------------------------
(* What the abstract register sees of a slot changes with its place and its *)
(* call only.                                                               *)
LEMMA OneStageMoves ==
  ASSUME TypeOK, NEW x \in Slots, NEW l, pc' = [pc EXCEPT ![x] = l],
         \A v \in Slots \ {x} : call'[v] = call[v],
         l = "idle" \/ (call'[x] = call[x] /\ call[x].op # "create")
  PROVE  /\ l \in {"first", "second"} => stage' = [stage EXCEPT ![x] = "open"]
         /\ l = "done" => stage' = [stage EXCEPT ![x] = "applied"]
         /\ l = "failed" => stage' = [stage EXCEPT ![x] = "broken"]
         /\ l = "idle" => stage' = [stage EXCEPT ![x] = "idle"]
<1>1. \A v \in Slots \ {x} : StageOf(v)' = StageOf(v)
  BY DEF StageOf, Seen, TypeOK
<1>2. stage' = [stage EXCEPT ![x] = StageOf(x)']
  BY <1>1 DEF stage
<1>3. pc'[x] = l
  BY DEF TypeOK
<1>4. QED
  BY <1>2, <1>3 DEF StageOf, Seen

LEMMA SameAsked ==
  ASSUME TypeOK, UNCHANGED call,
         \A x \in Slots : pc'[x] = "idle" <=> pc[x] = "idle"
  PROVE  asked' = asked
  BY DEF asked, Seen

(* A call that ends is asked no longer.                                     *)
LEMMA NoLongerAsked ==
  ASSUME TypeOK, NEW x \in Slots,
         pc' = [pc EXCEPT ![x] = "idle"], call' = [call EXCEPT ![x] = NoCall]
  PROVE  asked' = [asked EXCEPT ![x] = NoCall]
<1>1. pc'[x] = "idle" /\ \A v \in Slots \ {x} : pc'[v] = pc[v] /\ call'[v] = call[v]
  BY DEF TypeOK
<1>2. QED
  BY <1>1 DEF asked, Seen

(* An existing session is acted on as Effect says: the other fields of the  *)
(* record do not show.                                                      *)
LEMMA EffectSeen ==
  ASSUME NEW c \in Calls, c.op \in {"register", "login", "logout", "activity"}, NEW r,
         c.op \in {"logout", "activity"} => r \in Records
  PROVE  /\ SessionOf(Updated(r, c)) = Sessions!Effect(c.op, SessionOf(r))
         /\ c.op \in {"logout", "activity"} => SessionOf(r) # "none"
<1>1. Updated(r, c) \in Records /\ Updated(r, c) # NoRecord
  BY UpdatedTyped
<1>2. r \in Records => r # NoRecord
  BY AuthAssumption DEF Records
<1>3. CASE c.op \in {"register", "login"}
  BY <1>1, <1>3 DEF Updated, SessionOf, Sessions!Effect
<1>4. CASE c.op \in {"logout", "activity"}
  BY <1>1, <1>2, <1>4 DEF Updated, SessionOf, Sessions!Effect, Records
<1>5. QED
  BY <1>3, <1>4

(* A write is the whole effect of its call: what was checked before still   *)
(* holds, because no record is ever deleted.                                *)
LEMMA SaveActs ==
  ASSUME TypeOK, Found, NEW x \in Slots, Saves(x)
  PROVE  /\ Sessions!Act(x)
         /\ UNCHANGED tokens
<1> DEFINE op == call[x].op
           k == KeyUsed(x)
           s == session[k]
<1>1. /\ call[x] \in Calls /\ call[x].player \in Players /\ k \in Keys
      /\ op \in {"logout", "activity"} => record[k] \in Records
      /\ record'[k] = Updated(record[k], call[x])
      /\ \A j \in Keys \ {k} : record'[j] = record[j]
  BY Saved
<1>2. op \in {"register", "login", "logout", "activity"} /\ pc[x] \in {"second", "late"}
      /\ UNCHANGED tokens
  BY DEF Saves
<1>3. asked[x].op = op /\ asked[x].player = call[x].player
  BY <1>2 DEF asked, Seen
<1>4. k = IF op \in {"login", "info"} THEN [p \in Players |-> LoginKey(p)][asked[x].player]
                                    ELSE KeyOf[asked[x].player]
  BY <1>1, <1>3 DEF KeyUsed, KeyFor
<1>5. s = SessionOf(record[k])
  BY <1>1 DEF session
<1>6. SessionOf(record'[k]) = Sessions!Effect(op, s)
  BY <1>1, <1>2, <1>5, EffectSeen
<1>7. session' = [session EXCEPT ![k] = Sessions!Effect(op, s)]
  BY <1>1, <1>6 DEF session
<1>8. op \in {"register", "login"} \/ s # "none"
  BY <1>1, <1>2, <1>5, EffectSeen
<1> HIDE DEF k, op
<1>9. QED
  BY <1>2, <1>3, <1>4, <1>7, <1>8 DEF Sessions!Act

(* The write of a thread applies its call, or breaks it after its effect.   *)
LEMMA ThreadSaves ==
  ASSUME TypeOK, Found, NEW w \in Workers, Saves(w)
  PROVE  Sessions!Apply(w) \/ Sessions!Break(w)
<1>1. /\ w \in Slots /\ pc[w] = "second" /\ UNCHANGED call /\ call[w].op # "create"
      /\ pc' = [pc EXCEPT ![w] = "done"] \/ pc' = [pc EXCEPT ![w] = "failed"]
  BY DEF Saves, TypeOK, Slots
<1>2. Sessions!Act(w) /\ UNCHANGED tokens
  BY <1>1, SaveActs
<1>3. stage[w] = "open"
  BY <1>1 DEF stage, StageOf, Seen
<1>4. asked' = asked
  <2>1. \A v \in Slots : pc'[v] = "idle" <=> pc[v] = "idle"
    BY <1>1 DEF TypeOK
  <2>2. QED
    BY <1>1, <2>1, SameAsked
<1>5. CASE pc' = [pc EXCEPT ![w] = "done"]
  <2>1. stage' = [stage EXCEPT ![w] = "applied"]
    BY <1>1, <1>5, OneStageMoves
  <2>2. QED
    BY <1>2, <1>3, <1>4, <2>1 DEF Sessions!Apply
<1>6. CASE pc' = [pc EXCEPT ![w] = "failed"]
  <2>1. stage' = [stage EXCEPT ![w] = "broken"]
    BY <1>1, <1>6, OneStageMoves
  <2>2. QED
    BY <1>2, <1>3, <1>4, <2>1 DEF Sessions!Break
<1>7. QED
  BY <1>1, <1>5, <1>6

(* The late request that is carried out acts, the one that is not does not, *)
(* and the one for an account is no matter of sessions.                     *)
LEMMA LateActs ==
  ASSUME TypeOK, Found, NEW t \in Late, Saves(t) \/ Ends(t)
  PROVE  Sessions!ActLate(t) \/ UNCHANGED Sessions!sessionVars
<1>1. /\ t \in Slots /\ pc[t] = "late" /\ call[t] \in Calls
      /\ pc' = [pc EXCEPT ![t] = "idle"] /\ call' = [call EXCEPT ![t] = NoCall]
      /\ UNCHANGED tokens
  BY AuthAssumption DEF Saves, Ends, TypeOK, Slots
<1>2. \A v \in Slots \ {t} : call'[v] = call[v]
  BY <1>1
<1>3. stage' = [stage EXCEPT ![t] = "idle"] /\ asked' = [asked EXCEPT ![t] = NoCall]
  BY <1>1, <1>2, OneStageMoves, NoLongerAsked
<1>4. CASE Saves(t)
  <2>1. Sessions!Act(t)
    BY <1>1, <1>4, SaveActs
  <2>2. stage[t] = "late"
    BY <1>1, <1>4 DEF Saves, stage, StageOf, Seen
  <2>3. QED
    BY <1>1, <1>3, <2>1, <2>2 DEF Sessions!ActLate
<1>5. CASE Ends(t) /\ call[t].op # "create"
  <2>1. session' = session
    BY <1>5 DEF Ends, session
  <2>2. stage[t] = "late"
    BY <1>1, <1>5 DEF stage, StageOf, Seen
  <2>3. QED
    BY <1>1, <1>3, <2>1, <2>2 DEF Sessions!ActLate
<1>6. CASE Ends(t) /\ call[t].op = "create"
  <2>1. session' = session
    BY <1>6 DEF Ends, session
  <2>2. stage[t] = "idle" /\ asked[t] = NoCall
    BY <1>1, <1>6 DEF stage, StageOf, asked, Seen
  <2>3. stage' = stage /\ asked' = asked
    BY <1>3, <2>2 DEF stage, asked
  <2>4. QED
    BY <1>1, <2>1, <2>3 DEF Sessions!sessionVars
<1>7. QED
  BY <1>4, <1>5, <1>6

(* The steps that write no record refuse a call, read for it, or leave it   *)
(* open.                                                                    *)
LEMMA GoingOnActs ==
  ASSUME TypeOK, NEW w \in Workers, GoesOn(w)
  PROVE  \/ Sessions!Apply(w) \/ Sessions!Break(w)
         \/ UNCHANGED Sessions!sessionVars
<1>1. /\ UNCHANGED <<record, call, tokens>> /\ pc[w] \in {"first", "second"}
      /\ w \in Slots /\ call[w] \in Calls /\ call[w].op # "create"
  BY DEF GoesOn, TypeOK, Slots
<1>2. \/ pc' = [pc EXCEPT ![w] = "second"]
      \/ pc' = [pc EXCEPT ![w] = "failed"]
      \/ /\ pc' = [pc EXCEPT ![w] = "done"]
         /\ call[w].op = "info" /\ record[KeyUsed(w)] # NoRecord
  BY DEF GoesOn
<1>3. stage[w] = "open" /\ session' = session
  BY <1>1 DEF stage, StageOf, Seen, session
<1>4. asked' = asked
  <2>1. \A v \in Slots : pc'[v] = "idle" <=> pc[v] = "idle"
    BY <1>1, <1>2 DEF TypeOK
  <2>2. QED
    BY <1>1, <2>1, SameAsked
<1>5. CASE pc' = [pc EXCEPT ![w] = "second"]
  <2>1. stage' = [stage EXCEPT ![w] = "open"]
    BY <1>1, <1>5, OneStageMoves
  <2>2. stage' = stage
    BY <1>3, <2>1 DEF stage
  <2>3. QED
    BY <1>1, <1>3, <1>4, <2>2 DEF Sessions!sessionVars
<1>6. CASE pc' = [pc EXCEPT ![w] = "failed"]
  <2>1. stage' = [stage EXCEPT ![w] = "broken"]
    BY <1>1, <1>6, OneStageMoves
  <2>2. QED
    BY <1>1, <1>3, <1>4, <2>1 DEF Sessions!Break
<1>7. CASE /\ pc' = [pc EXCEPT ![w] = "done"]
           /\ call[w].op = "info" /\ record[KeyUsed(w)] # NoRecord
  <2> DEFINE k == KeyUsed(w)
  <2>1. stage' = [stage EXCEPT ![w] = "applied"]
    BY <1>1, <1>7, OneStageMoves
  <2>2. asked[w].op = "info" /\ asked[w].player = call[w].player
    BY <1>1, <1>7 DEF asked, Seen
  <2>3. call[w].player \in Players /\ k \in Keys
    BY <1>1, AuthAssumption DEF Calls, KeyUsed, KeyFor, LoginKey
  <2>4. k = [p \in Players |-> LoginKey(p)][asked[w].player]
    BY <1>7, <2>2, <2>3 DEF KeyUsed, KeyFor
  <2>5. session[k] # "none"
    BY <1>7, <2>3 DEF session, SessionOf
  <2>6. session' = [session EXCEPT ![k] = session[k]]
    BY <1>3 DEF session
  <2> HIDE DEF k
  <2>7. Sessions!Act(w)
    BY <2>2, <2>4, <2>5, <2>6 DEF Sessions!Act, Sessions!Effect
  <2>8. QED
    BY <1>1, <1>3, <1>4, <2>1, <2>7 DEF Sessions!Apply
<1>8. QED
  BY <1>2, <1>5, <1>6, <1>7

(* What a handler leaves behind may still act, unless it is for an account. *)
LEMMA LeavingBreaks ==
  ASSUME TypeOK, NEW w \in Workers, NEW t \in Late, NEW op \in Ops \cup {"create"},
         LeavesBehind(w, t, op)
  PROVE  Sessions!Break(w) \/ Sessions!BreakEarly(w, t)
<1>1. /\ w \in Slots /\ t \in Slots /\ w # t
      /\ pc[w] \in {"first", "second"} /\ pc[t] = "idle"
      /\ pc'[w] = "failed" /\ pc'[t] = "late"
      /\ \A v \in Slots \ {w, t} : pc'[v] = pc[v]
      /\ \A v \in Slots \ {t} : call'[v] = call[v]
      /\ call'[t].op = op /\ call'[t].player = call[w].player
  BY LeftBehind
<1>2. call[w].op # "create"
  BY <1>1 DEF TypeOK
<1>3. UNCHANGED tokens /\ session' = session
  BY DEF LeavesBehind, session
<1>4. stage[w] = "open" /\ stage[t] = "idle" /\ asked[t] = NoCall
      /\ asked[w] = [op |-> call[w].op, player |-> call[w].player]
  BY <1>1, <1>2 DEF stage, StageOf, asked, Seen
<1>5. \A v \in Slots \ {w, t} : StageOf(v)' = StageOf(v) /\ Seen(v)' = Seen(v)
  BY <1>1 DEF StageOf, Seen
<1>6. StageOf(w)' = "broken" /\ Seen(w) /\ Seen(w)'
  BY <1>1, <1>2 DEF StageOf, Seen
<1>7. CASE op = "create"
  <2>1. StageOf(t)' = "idle" /\ ~Seen(t) /\ ~Seen(t)'
    BY <1>1, <1>7 DEF StageOf, Seen
  <2>2. stage' = [stage EXCEPT ![w] = "broken"]
    BY <1>1, <1>4, <1>5, <1>6, <2>1 DEF stage
  <2>3. asked' = asked
    BY <1>1, <1>5, <1>6, <2>1 DEF asked
  <2>4. QED
    BY <1>3, <1>4, <2>2, <2>3 DEF Sessions!Break
<1>8. CASE op # "create"
  <2>1. op = call[w].op
    BY <1>8 DEF LeavesBehind
  <2>2. StageOf(t)' = "late" /\ Seen(t)'
    BY <1>1, <1>8 DEF StageOf, Seen
  <2>3. stage' = [stage EXCEPT ![w] = "broken", ![t] = "late"]
    BY <1>1, <1>5, <1>6, <2>2 DEF stage
  <2>4. asked' = [asked EXCEPT ![t] = asked[w]]
    BY <1>1, <1>4, <1>5, <1>6, <2>1, <2>2 DEF asked
  <2>5. QED
    BY <1>3, <1>4, <2>3, <2>4 DEF Sessions!BreakEarly
<1>9. QED
  BY <1>7, <1>8

(* A call that begins is asked; the calls it overlaps only lose their mark. *)
LEMMA BeginAsks ==
  ASSUME TypeOK, NEW w \in Workers, NEW p \in Players, NEW op \in Ops,
         Begin(w, p, op)
  PROVE  Sessions!Ask(w, p, op)
<1>1. /\ op = "info" => p \in tokens
      /\ UNCHANGED <<record, tokens>> /\ op # "create"
  BY DEF Begin, Ops
<1>2. /\ w \in Slots /\ pc[w] = "idle" /\ pc'[w] = "first"
      /\ call'[w].player = p /\ call'[w].op = op
      /\ \A v \in Slots \ {w} : pc'[v] = pc[v]
  BY BeginCalls
<1>3. \A v \in Slots \ {w} : pc[v] # "idle" =>
        call'[v].op = call[v].op /\ call'[v].player = call[v].player
  BY BeginCalls
<1>4. \A v \in Slots \ {w} : StageOf(v)' = StageOf(v) /\ Seen(v)' = Seen(v)
  BY <1>2, <1>3 DEF StageOf, Seen
<1>5. StageOf(w) = "idle" /\ StageOf(w)' = "open" /\ Seen(w)'
  BY <1>1, <1>2 DEF StageOf, Seen
<1>6. stage[w] = "idle" /\ stage' = [stage EXCEPT ![w] = "open"]
  BY <1>2, <1>4, <1>5 DEF stage
<1>7. asked' = [asked EXCEPT ![w] = [op |-> op, player |-> p]]
  BY <1>2, <1>3, <1>4, <1>5 DEF asked, Seen
<1>8. session' = session
  BY <1>1 DEF session
<1>9. QED
  BY <1>1, <1>6, <1>7, <1>8 DEF Sessions!Ask

(* An answer takes the call out of the register.                            *)
LEMMA AnswerReplies ==
  ASSUME TypeOK, NEW w \in Workers, Answer(w)
  PROVE  Sessions!Reply(w)
<1>1. /\ w \in Slots /\ call[w].op # "create"
      /\ pc[w] \in {"done", "failed"} /\ pc' = [pc EXCEPT ![w] = "idle"]
      /\ call' = [call EXCEPT ![w] = NoCall] /\ record' = record
      /\ tokens' = IF pc[w] = "done" /\ call[w].op = "login"
                   THEN tokens \cup {call[w].player} ELSE tokens
  BY DEF Answer, Goto, TypeOK, Slots
<1>2. /\ stage[w] \in {"applied", "broken"} /\ (stage[w] = "applied" <=> pc[w] = "done")
      /\ asked[w].op = call[w].op /\ asked[w].player = call[w].player
  BY <1>1 DEF stage, StageOf, asked, Seen
<1>3. \A v \in Slots \ {w} : call'[v] = call[v]
  BY <1>1
<1>4. stage' = [stage EXCEPT ![w] = "idle"] /\ asked' = [asked EXCEPT ![w] = NoCall]
  BY <1>1, <1>3, OneStageMoves, NoLongerAsked
<1>5. session' = session
  BY <1>1 DEF session
<1>6. QED
  BY <1>1, <1>2, <1>4, <1>5 DEF Sessions!Reply

(* A restart takes the calls of all threads out, and no late one.           *)
LEMMA CrashStops ==
  ASSUME TypeOK, Crash
  PROVE  Sessions!Stop
<1>1. /\ UNCHANGED <<record, tokens>>
      /\ \A v \in Workers : pc'[v] = "idle"
      /\ \A v \in Slots \ Workers : pc'[v] = pc[v] /\ call'[v] = call[v]
  BY DEF Crash, Slots
<1>2. \A v \in Workers : StageOf(v)' = "idle" /\ ~Seen(v)'
  BY <1>1 DEF StageOf, Seen
<1>3. \A v \in Slots \ Workers : StageOf(v)' = StageOf(v) /\ Seen(v)' = Seen(v)
  BY <1>1 DEF StageOf, Seen
<1>4. stage' = [x \in Slots |-> IF x \in Workers THEN "idle" ELSE stage[x]]
  BY <1>2, <1>3 DEF stage
<1>5. asked' = [x \in Slots |-> IF x \in Workers THEN NoCall ELSE asked[x]]
  BY <1>1, <1>2, <1>3 DEF asked
<1>6. session' = session
  BY <1>1 DEF session
<1>7. QED
  BY <1>1, <1>4, <1>5, <1>6 DEF Sessions!Stop, Slots

(* Every call acts at one moment on the session that its own address leads  *)
(* to, however handlers interleave, whatever fails or lands late and        *)
(* whoever shares a key.                                                    *)
THEOREM CallsActAtOnce == Spec => ActsAtOnce
<1>1. Init => Sessions!SessionInit
  BY DEF Init, Sessions!SessionInit, session, SessionOf, stage, StageOf, asked, Seen, Slots
<1>2. TypeOK /\ Found /\ [Next]_vars
        => [Sessions!SessionNext]_(Sessions!sessionVars)
  <2> SUFFICES ASSUME TypeOK, Found, [Next]_vars
               PROVE  Sessions!SessionNext \/ UNCHANGED Sessions!sessionVars
    OBVIOUS
  <2>1. ASSUME NEW w \in Workers, Handle(w)
        PROVE  Sessions!SessionNext \/ UNCHANGED Sessions!sessionVars
    BY <2>1, HandlerKinds, ThreadSaves, GoingOnActs, LeavingBreaks, AnswerReplies
       DEF Sessions!SessionNext
  <2>2. ASSUME NEW t \in Late, Land(t) \/ Vanish(t)
        PROVE  Sessions!SessionNext \/ UNCHANGED Sessions!sessionVars
    BY <2>2, LateKinds, LateActs DEF Sessions!SessionNext
  <2>3. ASSUME NEW w \in Workers, NEW p \in Players, NEW op \in Ops, Begin(w, p, op)
        PROVE  Sessions!SessionNext
    BY <2>3, BeginAsks DEF Sessions!SessionNext, Ops, Sessions!SessionOps
  <2>4. CASE Crash
    BY <2>4, CrashStops DEF Sessions!SessionNext
  <2>5. CASE UNCHANGED vars
    BY <2>5 DEF vars, Sessions!sessionVars, session, stage, StageOf, asked, Seen
  <2>6. QED
    BY <2>1, <2>2, <2>3, <2>4, <2>5 DEF Next
<1>3. QED
  BY <1>1, <1>2, TypedAndFound, PTL DEF Spec, ActsAtOnce, Sessions!SessionSpec
=============================================================================
