--------------------------- MODULE PlayerSessions ---------------------------
(* What the authentication service promises of a player's session: every    *)
(* call acts on it at one moment.  A call that is answered without an error *)
(* does so exactly once, between the request and the answer; one that fails *)
(* or is cut off by a restart does so once or not at all, and perhaps after *)
(* the answer.  Login and info act on the session below the key of the      *)
(* address that Firebase returns, the other calls below the key of the      *)
(* address they were given: for an address with capitals these are two.     *)

CONSTANTS Players, Keys,
          TypedKey,     \* the key of the address as given
          ReturnedKey,  \* the key of the address that Firebase returns
          Workers,
          Late,         \* slots for calls that may act after their answer
          NoCall

VARIABLES session,  \* below each key: no record, or logged in or out
          stage,    \* how far it is
          asked,    \* the call in each thread and in each slot
          tokens    \* players that were given an idToken

sessionVars == <<session, stage, asked, tokens>>

SessionOps == {"register", "login", "logout", "activity", "info"}

SessionInit == /\ session = [k \in Keys |-> "none"]
               /\ stage = [x \in Workers \cup Late |-> "idle"]
               /\ asked = [x \in Workers \cup Late |-> NoCall]
               /\ tokens = {}

(* A call arrives; who asks for the player's info has a token.              *)
Ask(w, p, op) ==
  /\ stage[w] = "idle"
  /\ op = "info" => p \in tokens
  /\ stage' = [stage EXCEPT ![w] = "open"]
  /\ asked' = [asked EXCEPT ![w] = [op |-> op, player |-> p]]
  /\ UNCHANGED <<session, tokens>>

(* What a call makes of a session.                                          *)
Effect(op, s) == CASE op = "login" -> "in"
                   [] op \in {"register", "logout"} -> "out"
                   [] OTHER -> s

(* The whole effect of a call, at once.  Only a registration or a login     *)
(* acts on a player without a record.                                       *)
Act(x) ==
  LET op == asked[x].op
      k == IF op \in {"login", "info"} THEN ReturnedKey[asked[x].player]
                                       ELSE TypedKey[asked[x].player] IN
  /\ op \in {"register", "login"} \/ session[k] # "none"
  /\ session' = [session EXCEPT ![k] = Effect(op, @)]

Apply(w) ==
  /\ stage[w] = "open"
  /\ Act(w)
  /\ stage' = [stage EXCEPT ![w] = "applied"]
  /\ UNCHANGED <<asked, tokens>>

(* Refused, or failed before or after its effect.                           *)
Break(w) ==
  /\ stage[w] = "open"
  /\ Act(w) \/ UNCHANGED session
  /\ stage' = [stage EXCEPT ![w] = "broken"]
  /\ UNCHANGED <<asked, tokens>>

(* Failed before an effect that it may still have.                          *)
BreakEarly(w, t) ==
  /\ stage[w] = "open" /\ stage[t] = "idle"
  /\ stage' = [stage EXCEPT ![w] = "broken", ![t] = "late"]
  /\ asked' = [asked EXCEPT ![t] = asked[w]]
  /\ UNCHANGED <<session, tokens>>

ActLate(t) ==
  /\ stage[t] = "late"
  /\ Act(t) \/ UNCHANGED session
  /\ stage' = [stage EXCEPT ![t] = "idle"]
  /\ asked' = [asked EXCEPT ![t] = NoCall]
  /\ UNCHANGED tokens

Reply(w) ==
  /\ stage[w] \in {"applied", "broken"}
  /\ tokens' = IF stage[w] = "applied" /\ asked[w].op = "login"
               THEN tokens \cup {asked[w].player} ELSE tokens
  /\ stage' = [stage EXCEPT ![w] = "idle"]
  /\ asked' = [asked EXCEPT ![w] = NoCall]
  /\ UNCHANGED session

(* The process stops.  The calls in its threads never act, the late ones    *)
(* may still.                                                               *)
Stop == /\ stage' = [x \in Workers \cup Late |->
                        IF x \in Workers THEN "idle" ELSE stage[x]]
        /\ asked' = [x \in Workers \cup Late |->
                        IF x \in Workers THEN NoCall ELSE asked[x]]
        /\ UNCHANGED <<session, tokens>>

SessionNext ==
  \/ \E w \in Workers, p \in Players, op \in SessionOps : Ask(w, p, op)
  \/ \E w \in Workers : Apply(w) \/ Break(w) \/ Reply(w)
  \/ \E w \in Workers, t \in Late : BreakEarly(w, t)
  \/ \E t \in Late : ActLate(t)
  \/ Stop

SessionSpec == SessionInit /\ [][SessionNext]_sessionVars
=============================================================================
