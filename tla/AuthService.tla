----------------------------- MODULE AuthService -----------------------------
(* The authentication service, gs_auth_server.py: gRPC handlers in a pool   *)
(* of threads over two Firebase stores, the accounts and the user records,  *)
(* which no transaction connects.  Each step of a handler makes one call to *)
(* Firebase, which can also take effect after the handler has failed or the *)
(* process has ended.  AuthenticationTokenRefresh touches neither store.    *)
EXTENDS Naturals

CONSTANTS Players,    \* e-mail addresses as typed, which create_email accepts
          Accounts,   \* e-mail addresses as Firebase keeps and returns them
          AccountOf,  \* what Firebase makes of a typed address: lower case
          Keys,       \* paths below users/
          KeyOf,      \* create_email of the typed address
          AccountKey, \* create_email of the address that Firebase returns
          Workers,    \* threads of the pool
          Late,       \* bound: slots for requests that outlive their handler
          NoRecord,
          NoCall,
          MaxTime,    \* bound: calls that begin later begin at this time
          Faults      \* which of "firebase", "timeout", "crash" occur

ASSUME AuthAssumption ==
  /\ AccountOf \in [Players -> Accounts]
  /\ KeyOf \in [Players -> Keys]
  /\ AccountKey \in [Accounts -> Keys]
  /\ Workers \cap Late = {}
  /\ MaxTime \in Nat
  /\ NoRecord \notin [loggedIn : BOOLEAN, lastActivity : Nat]
  /\ Faults \subseteq {"firebase", "timeout", "crash"}

VARIABLES accounts,  \* Firebase Authentication
          record,    \* Firebase Database; its other two times are left out
          pc,        \* where each thread is, and which requests are late
          call,      \* the call of each thread and of each late request
          now,       \* time.time()
          tokens,    \* players that were given an idToken
          told       \* what the answers say of each player's session

vars == <<accounts, record, pc, call, now, tokens, told>>

Records == [loggedIn : BOOLEAN, lastActivity : Nat]

Slots == Workers \cup Late

Ops == {"register", "login", "logout", "activity", "info"}

(* timestamp is taken first; alone is history: no other call of the player  *)
(* has been under way, or late, together with this one.  A late request for *)
(* an account has an op of its own.                                         *)
Calls == [op : Ops \cup {"create"}, player : Players, timestamp : Nat, alone : BOOLEAN]

TypeOK ==
  /\ accounts \subseteq Accounts
  /\ record \in [Keys -> Records \cup {NoRecord}]
  /\ pc \in [Slots -> {"idle", "first", "second", "done", "failed", "late"}]
  /\ call \in [Slots -> Calls \cup {NoCall}]
  /\ \A x \in Slots : pc[x] # "idle" => call[x] \in Calls
  /\ \A w \in Workers : pc[w] # "late" /\ (pc[w] # "idle" => call[w].op # "create")
  /\ \A t \in Late : pc[t] \in {"idle", "late"} /\ (pc[t] # "idle" => call[t].op # "info")
  /\ now \in Nat
  /\ tokens \subseteq Players
  /\ told \in [Players -> {"unsure", "out", "in"}]

Init == /\ accounts = {}
        /\ record = [k \in Keys |-> NoRecord]
        /\ pc = [x \in Slots |-> "idle"]
        /\ call = [x \in Slots |-> NoCall]
        /\ now = 0
        /\ tokens = {}
        /\ told = [p \in Players |-> "unsure"]

Goto(w, label) == pc' = [pc EXCEPT ![w] = label]

(* A call to Firebase that had its effect returns, or raises all the same.  *)
Returns(w, label) ==
  /\ \/ Goto(w, label)
     \/ "firebase" \in Faults /\ Goto(w, "failed")
  /\ UNCHANGED call

(* A call to Firebase raises while its request is still on the way.         *)
RaisesEarly(w, op) ==
  /\ "firebase" \in Faults
  /\ \E t \in Late :
       /\ pc[t] = "idle"
       /\ pc' = [pc EXCEPT ![w] = "failed", ![t] = "late"]
       /\ call' = [call EXCEPT ![t] = [call[w] EXCEPT !.op = op]]

Handles(w, ops) == pc[w] = "first" /\ call[w].op \in ops

(* Mutant: login goes by the address of the request, too.                   *)
TypedKeyFor(op, p) == IF op = "info" THEN AccountKey[AccountOf[p]] ELSE KeyOf[p]

(* login and info go by the address that Firebase returns, the others by    *)
(* the address of the request.                                              *)
LoginKey(p) == AccountKey[AccountOf[p]]
KeyFor(op, p) == IF op \in {"login", "info"} THEN LoginKey(p) ELSE KeyOf[p]
KeyUsed(x) == KeyFor(call[x].op, call[x].player)

CallsOf(p) == {x \in Slots : pc[x] # "idle" /\ call[x].player = p}

Changes(op) == op \in {"register", "login", "logout"}

-----------------------------------------------------------------------------
(* A player calls, with a token where one is needed.  Without timeouts the  *)
(* player waits for the answer to the call before, as gs_auth_client does.  *)
Begin(w, p, op) ==
  /\ pc[w] = "idle"
  /\ "timeout" \in Faults \/ CallsOf(p) \cap Workers = {}
  /\ op = "info" => p \in tokens
  /\ now' = IF now < MaxTime THEN now + 1 ELSE now
  /\ call' = [v \in Slots |->
       IF v = w THEN [op |-> op, player |-> p, timestamp |-> now',
                      alone |-> CallsOf(p) = {}]
       ELSE IF v \in CallsOf(p) THEN [call[v] EXCEPT !.alone = FALSE]
       ELSE call[v]]
  /\ told' = IF Changes(op) \/ CallsOf(p) # {}
             THEN [told EXCEPT ![p] = "unsure"] ELSE told
  /\ Goto(w, "first")
  /\ UNCHANGED <<accounts, record, tokens>>

(* Mutant: an address that has an account can be registered again.          *)
RegisterAgain(w) ==
  /\ Handles(w, {"register"})
  /\ \/ Goto(w, "failed") /\ UNCHANGED <<accounts, call>>
     \/ /\ accounts' = accounts \cup {AccountOf[call[w].player]}
        /\ Returns(w, "second")
  /\ UNCHANGED <<record, now, tokens, told>>

(* RegisterPlayer up to the account: a bad address or password is refused,  *)
(* and so is an address that has an account.                                *)
RegisterPlayer(w) ==
  /\ Handles(w, {"register"})
  /\ LET account == AccountOf[call[w].player] IN
       \/ Goto(w, "failed") /\ UNCHANGED <<accounts, call>>
       \/ /\ account \notin accounts
          /\ \/ accounts' = accounts \cup {account} /\ Returns(w, "second")
             \/ RaisesEarly(w, "create") /\ UNCHANGED accounts
  /\ UNCHANGED <<record, now, tokens, told>>

(* Mutant: the token is returned before the record is written.              *)
LoginPlayerEarly(w) ==
  /\ Handles(w, {"login"})
  /\ \/ Goto(w, "failed")
     \/ AccountOf[call[w].player] \in accounts /\ Goto(w, "done")
  /\ UNCHANGED <<accounts, record, call, now, tokens, told>>

(* LoginPlayer up to the token: the password is right or not.               *)
LoginPlayer(w) ==
  /\ Handles(w, {"login"})
  /\ \/ Goto(w, "failed")
     \/ AccountOf[call[w].player] \in accounts /\ Goto(w, "second")
  /\ UNCHANGED <<accounts, record, call, now, tokens, told>>

(* LogoutPlayer and UpdateActivity up to player_exists_check.               *)
CheckExists(w) ==
  /\ Handles(w, {"logout", "activity"})
  /\ \/ record[KeyUsed(w)] # NoRecord /\ Goto(w, "second")
     \/ /\ record[KeyUsed(w)] = NoRecord \/ "firebase" \in Faults
        /\ Goto(w, "failed")
  /\ UNCHANGED <<accounts, record, call, now, tokens, told>>

(* GetPlayerInfo up to get_account_info, which refuses an expired token.    *)
GetPlayerInfo(w) ==
  /\ Handles(w, {"info"})
  /\ Goto(w, "second") \/ Goto(w, "failed")
  /\ UNCHANGED <<accounts, record, call, now, tokens, told>>

(* Mutant: set() in place of update(): what is not named is lost.           *)
SetRecord(r, c) ==
  CASE c.op = "register" -> [loggedIn |-> FALSE, lastActivity |-> 0]
    [] c.op = "login"    -> [loggedIn |-> TRUE, lastActivity |-> c.timestamp]
    [] c.op = "logout"   -> [loggedIn |-> FALSE]
    [] c.op = "activity" -> [lastActivity |-> c.timestamp]

(* What update() makes of the record.                                       *)
Updated(r, c) ==
  CASE c.op = "register" -> [loggedIn |-> FALSE, lastActivity |-> 0]
    [] c.op = "login"    -> [loggedIn |-> TRUE, lastActivity |-> c.timestamp]
    [] c.op = "logout"   -> [r EXCEPT !.loggedIn = FALSE]
    [] c.op = "activity" -> [r EXCEPT !.lastActivity = c.timestamp]

(* What update() makes of the record that the call is about.                *)
Write(x) == record' = [record EXCEPT ![KeyUsed(x)] = Updated(@, call[x])]

(* Mutant: what update() raises is caught and dropped.                      *)
UpdateRecordQuietly(w) ==
  /\ pc[w] = "second"
  /\ call[w].op # "info"
  /\ Write(w) \/ UNCHANGED record
  /\ Goto(w, "done")
  /\ UNCHANGED <<accounts, call, now, tokens, told>>

(* The second call of the handlers that write.                              *)
UpdateRecord(w) ==
  /\ pc[w] = "second"
  /\ call[w].op # "info"
  /\ \/ Write(w) /\ Returns(w, "done")
     \/ /\ "firebase" \in Faults
        /\ Goto(w, "failed")
        /\ UNCHANGED <<record, call>>
     \/ RaisesEarly(w, call[w].op) /\ UNCHANGED record
  /\ UNCHANGED <<accounts, now, tokens, told>>

(* GetPlayerInfo reads the record; userinfo.val() must not be None.         *)
ReadRecord(w) ==
  /\ pc[w] = "second"
  /\ call[w].op = "info"
  /\ \/ record[KeyUsed(w)] # NoRecord /\ Goto(w, "done")
     \/ /\ record[KeyUsed(w)] = NoRecord \/ "firebase" \in Faults
        /\ Goto(w, "failed")
  /\ UNCHANGED <<accounts, record, call, now, tokens, told>>

(* The answer.  It says something of the session when no other call of the  *)
(* player was under way meanwhile.                                          *)
Answer(w) ==
  /\ pc[w] \in {"done", "failed"}
  /\ LET c == call[w] IN
       /\ told' = [told EXCEPT ![c.player] =
            IF ~c.alone THEN "unsure"
            ELSE IF pc[w] = "done" /\ Changes(c.op)
                 THEN IF c.op = "login" THEN "in" ELSE "out"
                 ELSE @]
       /\ tokens' = IF pc[w] = "done" /\ c.op = "login"
                    THEN tokens \cup {c.player} ELSE tokens
  /\ Goto(w, "idle")
  /\ call' = [call EXCEPT ![w] = NoCall]
  /\ UNCHANGED <<accounts, record, now>>

(* The process ends, and a new one starts.  What its requests to Firebase   *)
(* still do is up to them: a handler that dies while it waits is one whose  *)
(* call raises early just before.                                           *)
Crash == /\ "crash" \in Faults
         /\ pc' = [x \in Slots |-> IF x \in Workers THEN "idle" ELSE pc[x]]
         /\ call' = [x \in Slots |-> IF x \in Workers THEN NoCall ELSE call[x]]
         /\ UNCHANGED <<accounts, record, now, tokens, told>>

-----------------------------------------------------------------------------
(* A late request is carried out ...                                        *)
Land(t) ==
  /\ pc[t] = "late"
  /\ IF call[t].op = "create"
     THEN accounts' = accounts \cup {AccountOf[call[t].player]} /\ UNCHANGED record
     ELSE Write(t) /\ UNCHANGED accounts
  /\ Goto(t, "idle")
  /\ call' = [call EXCEPT ![t] = NoCall]
  /\ UNCHANGED <<now, tokens, told>>

(* ... or never is.                                                         *)
Vanish(t) ==
  /\ pc[t] = "late"
  /\ Goto(t, "idle")
  /\ call' = [call EXCEPT ![t] = NoCall]
  /\ UNCHANGED <<accounts, record, now, tokens, told>>

-----------------------------------------------------------------------------
Handle(w) == \/ RegisterPlayer(w) \/ LoginPlayer(w) \/ CheckExists(w)
             \/ GetPlayerInfo(w) \/ UpdateRecord(w) \/ ReadRecord(w)
             \/ Answer(w)

Next == \/ \E w \in Workers : Handle(w)
        \/ \E w \in Workers, p \in Players, op \in Ops : Begin(w, p, op)
        \/ \E t \in Late : Land(t) \/ Vanish(t)
        \/ Crash

Spec == Init /\ [][Next]_vars

-----------------------------------------------------------------------------
(* No two players share a key, typed or returned.                           *)
KeysOf(p) == {KeyOf[p], LoginKey(p)}
KeysDistinct == \A p, q \in Players : KeysOf(p) \cap KeysOf(q) # {} => p = q

(* The address is the one that Firebase returns: no capitals.               *)
Plain(p) == KeyOf[p] = LoginKey(p)

(* The record that GetPlayerInfo shows to others, and what it says.         *)
Shown(p) == record[LoginKey(p)]
ShownIn(p) == Shown(p) # NoRecord /\ Shown(p).loggedIn
ShownOut(p) == Shown(p) # NoRecord /\ ~Shown(p).loggedIn

(* gs_auth_server.py:76 and :91: a login "sets loggedIn=True", a logout     *)
(* "sets the loggedIn=False".  After the answer to a call that no other     *)
(* call of the player overlapped and no late request of the player either,  *)
(* the record that GetPlayerInfo shows says so until the player's next      *)
(* call: no call of somebody else, no request that lands late and no        *)
(* restart changes it, and a registered player has a record.  Of a          *)
(* registration or a logout this holds for addresses without capitals only. *)
AnswersStand ==
  \A p \in Players :
    /\ told[p] = "in" => ShownIn(p)
    /\ told[p] = "out" /\ Plain(p) => ShownOut(p)

(* With capitals, :95 and :84 make two keys of one address: contrary to :91 *)
(* a player who has logged in once is shown as logged in for ever, whatever *)
(* logouts were answered without an error since.                            *)
CapitalsStayIn == \A p \in tokens : ~Plain(p) => ShownIn(p)

(* GetPlayerInfo never meets a player without a record, although a broken   *)
(* registration leaves an account without one: a token is only given out    *)
(* when a login has written the record.                                     *)
TokensFindRecords == \A p \in tokens : Shown(p) # NoRecord

(* lastActivity of a player goes back only by a call that another call or a *)
(* late request of the same player overlapped: a late write, or a           *)
(* registration that is overtaken by a login.                               *)
OnlyOverlapTurnsBack ==
  [][\A x \in Slots :
       pc[x] \in {"second", "late"} /\ pc'[x] # pc[x] =>
         LET k == KeyUsed(x) IN
         record[k] # NoRecord /\ call[x].alone =>
           record'[k].lastActivity >= record[k].lastActivity]_vars

(* What a reader of the two stores can see of the sessions and the calls.   *)
(* A late request for an account acts on no session.                        *)
SessionOf(r) == IF r = NoRecord THEN "none" ELSE IF r.loggedIn THEN "in" ELSE "out"

Seen(x) == pc[x] # "idle" /\ call[x].op # "create"

StageOf(x) == CASE ~Seen(x)                     -> "idle"
                [] pc[x] \in {"first", "second"} -> "open"
                [] pc[x] = "done"               -> "applied"
                [] pc[x] = "failed"             -> "broken"
                [] OTHER                        -> "late"

session == [k \in Keys |-> SessionOf(record[k])]
stage == [x \in Slots |-> StageOf(x)]
asked == [x \in Slots |-> IF Seen(x)
                          THEN [op |-> call[x].op, player |-> call[x].player]
                          ELSE NoCall]

Sessions == INSTANCE PlayerSessions
              WITH TypedKey <- KeyOf, ReturnedKey <- [p \in Players |-> LoginKey(p)]

(* gs_auth_server.py:97 and :69: the check and the write of a handler are   *)
(* two calls to Firebase, with other handlers, failures and restarts in     *)
(* between, yet every call acts at one moment, on the record that its own   *)
(* address leads to: between its request and its answer if it is answered   *)
(* without an error, else then, or later, or never, but never twice.        *)
ActsAtOnce == Sessions!SessionSpec

=============================================================================
