---------------------- MODULE NotificationPipelineProofs ----------------------
(***************************************************************************)
(* Safety of NotificationPipeline for any users, messages and consumers,   *)
(* and any number of crashes, rebalances, failing calls and lost records.  *)
(***************************************************************************)
EXTENDS NotificationPipeline, TLAPS

USE PipelineAssumption

(***************************************************************************)
(* The strengthening of TypeOK: a consumer that is not polling has a       *)
(* record, and what is on its way has been committed.                      *)
(***************************************************************************)
FlowInv ==
    /\ TypeOK
    /\ tasks \subseteq committed /\ topic \subseteq committed
    /\ keys \subseteq committed /\ lapsed \subseteq committed
    /\ \A c \in Consumer : pc[c] # "poll" => event[c] \in committed
    /\ \A c \in Consumer : pc[c] = "send" => at[c] \in todo[c]

LEMMA FlowInit == Init => FlowInv
BY DEF Init, FlowInv, TypeOK, Nobody

LEMMA FlowNext == FlowInv /\ [Next]_vars => FlowInv'
<1> SUFFICES ASSUME FlowInv, [Next]_vars PROVE FlowInv'
    OBVIOUS
<1> USE DEF FlowInv, TypeOK
<1>1. CASE UNCHANGED vars
      BY <1>1 DEF vars, settings, consumers, results, history
<1>2. ASSUME NEW u \in User, UpdateNotificationEnabled(u) PROVE FlowInv'
      BY <1>2 DEF UpdateNotificationEnabled, consumers, results, history
<1>3. ASSUME NEW m \in Message, CreateMessage(m) PROVE FlowInv'
      BY <1>3 DEF CreateMessage, consumers, results
<1>4. ASSUME NEW m \in Message, Send(m) PROVE FlowInv'
      BY <1>4 DEF Send, settings, consumers, results, history
<1>5. ASSUME NEW m \in Message, SendLost(m) PROVE FlowInv'
      BY <1>5 DEF SendLost, settings, consumers, results
<1>6. ASSUME NEW m \in Message, KeyExpires(m) PROVE FlowInv'
      BY <1>6 DEF KeyExpires, settings, consumers, results
<1>7. ASSUME NEW c \in Consumer, Claim(c) PROVE FlowInv'
  <2>1. PICK m \in topic :
          /\ topic' = topic \ {m} /\ event' = [event EXCEPT ![c] = m]
          /\ pc' \in {[pc EXCEPT ![c] = "find"], [pc EXCEPT ![c] = "return"]}
          /\ keys' \in {keys, keys \cup {m}}
      BY <1>7 DEF Claim
  <2>2. UNCHANGED <<settings, committed, tasks, todo, at, results, mishaps, history>>
      BY <1>7 DEF Claim
  <2>3. m \in Message
      BY <2>1
  <2> QED BY <2>1, <2>2, <2>3 DEF settings, results, history
<1>8. ASSUME NEW c \in Consumer, FindStatuses(c) PROVE FlowInv'
      BY <1>8 DEF FindStatuses, Receivers, settings, results, history
<1>9. ASSUME NEW c \in Consumer, Create(c) PROVE FlowInv'
      BY <1>9 DEF Create, settings, history
<1>10. ASSUME NEW c \in Consumer, Push(c) PROVE FlowInv'
      BY <1>10 DEF Push, settings, history
<1>11. ASSUME NEW c \in Consumer, PushFails(c) PROVE FlowInv'
      BY <1>11 DEF PushFails, settings, results
<1>12. ASSUME NEW c \in Consumer, Fault(c) PROVE FlowInv'
  <2>1. /\ pc' = [pc EXCEPT ![c] = "return"] /\ mishaps' = mishaps + 1
        /\ disturbed' = disturbed \cup {event'[c]}
        /\ UNCHANGED <<settings, committed, tasks, todo, at, results, handled, lost, lapsed>>
      BY <1>12 DEF Fault
  <2>2. /\ event'[c] \in committed /\ event' = [event EXCEPT ![c] = event'[c]]
        /\ topic' \subseteq topic /\ keys \subseteq keys' /\ keys' \subseteq keys \cup {event'[c]}
    <3>1. CASE /\ pc[c] = "find" \/ (pc[c] = "next" /\ todo[c] # {})
               /\ UNCHANGED <<topic, event, keys>>
        BY <3>1
    <3>2. CASE \E m \in topic : /\ topic' = topic \ {m} /\ event' = [event EXCEPT ![c] = m]
                               /\ keys' \in {keys, keys \cup {m}}
        BY <3>2
    <3> QED BY <1>12, <3>1, <3>2 DEF Fault
  <2> QED BY <2>1, <2>2 DEF settings, results
<1>13. ASSUME NEW c \in Consumer, Commit(c) PROVE FlowInv'
      BY <1>13 DEF Commit, Returning, settings, results
<1>14. ASSUME NEW c \in Consumer, Crash(c) PROVE FlowInv'
      BY <1>14 DEF Crash, settings, results
<1>15. ASSUME NEW c \in Consumer, Rebalance(c) PROVE FlowInv'
      BY <1>15 DEF Rebalance, settings, consumers, results, history
<1> QED
    BY <1>1, <1>2, <1>3, <1>4, <1>5, <1>6, <1>7, <1>8, <1>9, <1>10, <1>11,
       <1>12, <1>13, <1>14, <1>15 DEF Next, Handle

\* The types of the pipeline.
THEOREM TypeCorrect == Spec => []TypeOK
<1>1. FlowInv => TypeOK
      BY DEF FlowInv
<1> QED
    BY FlowInit, FlowNext, <1>1, PTL DEF Spec

-----------------------------------------------------------------------------
(* What the two nested updates do, receiver by receiver.                   *)

LEMMA CreateEffect ==
    ASSUME FlowInv, NEW c \in Consumer, Create(c)
    PROVE  \E r \in todo[c] :
              /\ at' = [at EXCEPT ![c] = r]
              /\ \A m \in Message, u \in User :
                    created'[m][u] = IF m = event[c] /\ u = r
                                     THEN created[m][u] + 1 ELSE created[m][u]
<1>1. event[c] \in Message /\ todo[c] \subseteq User /\ created \in [Message -> [User -> Nat]]
    BY DEF FlowInv, TypeOK, Create
<1>2. PICK r \in todo[c] :
        /\ created' = [created EXCEPT ![event[c]][r] = @ + 1]
        /\ at' = [at EXCEPT ![c] = r]
    BY DEF Create
<1>3. \A m \in Message, u \in User :
        created'[m][u] = IF m = event[c] /\ u = r
                         THEN created[m][u] + 1 ELSE created[m][u]
    BY <1>1, <1>2
<1> QED BY <1>2, <1>3

LEMMA PushEffect ==
    ASSUME FlowInv, NEW c \in Consumer, Push(c)
    PROVE  /\ todo' = [todo EXCEPT ![c] = todo[c] \ {at[c]}]
           /\ \A m \in Message, u \in User :
                 pushed'[m][u] = IF m = event[c] /\ u = at[c]
                                 THEN pushed[m][u] + 1 ELSE pushed[m][u]
<1>1. event[c] \in Message /\ at[c] \in User /\ pushed \in [Message -> [User -> Nat]]
    BY DEF FlowInv, TypeOK, Push
<1> QED BY <1>1 DEF Push, FlowInv, TypeOK

-----------------------------------------------------------------------------
(* At most once.                                                           *)

Working(c, m) == event[c] = m /\ pc[c] \in {"find", "next", "send"}

(***************************************************************************)
(* Until the key of a message expires, it counts who handles the message:  *)
(* nobody has before it is set, and one consumer does from then on, which  *)
(* has done nothing yet for the receivers it has left, except for the      *)
(* notification it is about to push.                                       *)
(***************************************************************************)
UnclaimedInv ==
    \A m \in Message \ (lapsed \cup keys) :
        /\ \A c \in Consumer : ~Working(c, m)
        /\ \A u \in User : created[m][u] = 0 /\ pushed[m][u] = 0

OneWorksInv ==
    \A m \in Message \ lapsed : \A c, d \in Consumer :
        Working(c, m) /\ Working(d, m) => c = d

UnservedInv ==
    \A m \in Message \ lapsed, c \in Consumer, u \in User :
        Working(c, m) /\ (pc[c] = "find" \/ u \in todo[c]) =>
            /\ pushed[m][u] = 0
            /\ created[m][u] = 0 \/ (pc[c] = "send" /\ u = at[c])

OnceInv == UnclaimedInv /\ OneWorksInv /\ UnservedInv /\ AtMostOnce

LEMMA OnceInit == Init => OnceInv
BY DEF Init, Nobody, OnceInv, UnclaimedInv, OneWorksInv, UnservedInv, Working, AtMostOnce

LEMMA OnceNext == FlowInv /\ OnceInv /\ [Next]_vars => OnceInv'
<1> SUFFICES ASSUME FlowInv, OnceInv, [Next]_vars PROVE OnceInv'
    OBVIOUS
<1> USE DEF OnceInv, UnclaimedInv, OneWorksInv, UnservedInv, AtMostOnce, Working, FlowInv, TypeOK
<1>1. CASE UNCHANGED vars
      BY <1>1 DEF vars, settings, consumers, results, history
<1>2. ASSUME NEW u \in User, UpdateNotificationEnabled(u) PROVE OnceInv'
  <2>1. UnclaimedInv'
      BY <1>2 DEF UpdateNotificationEnabled, consumers, results, history
  <2>2. OneWorksInv'
      BY <1>2 DEF UpdateNotificationEnabled, consumers, results, history
  <2>3. UnservedInv'
      BY <1>2 DEF UpdateNotificationEnabled, consumers, results, history
  <2>4. AtMostOnce'
      BY <1>2 DEF UpdateNotificationEnabled, consumers, results, history
  <2> QED BY <2>1, <2>2, <2>3, <2>4
<1>3. ASSUME NEW m \in Message, CreateMessage(m) PROVE OnceInv'
  <2>1. UnclaimedInv'
      BY <1>3 DEF CreateMessage, consumers, results
  <2>2. OneWorksInv'
      BY <1>3 DEF CreateMessage, consumers, results
  <2>3. UnservedInv'
      BY <1>3 DEF CreateMessage, consumers, results
  <2>4. AtMostOnce'
      BY <1>3 DEF CreateMessage, consumers, results
  <2> QED BY <2>1, <2>2, <2>3, <2>4
<1>4. ASSUME NEW m \in Message, Send(m) PROVE OnceInv'
  <2>1. UnclaimedInv'
      BY <1>4 DEF Send, settings, consumers, results, history
  <2>2. OneWorksInv'
      BY <1>4 DEF Send, settings, consumers, results, history
  <2>3. UnservedInv'
      BY <1>4 DEF Send, settings, consumers, results, history
  <2>4. AtMostOnce'
      BY <1>4 DEF Send, settings, consumers, results, history
  <2> QED BY <2>1, <2>2, <2>3, <2>4
<1>5. ASSUME NEW m \in Message, SendLost(m) PROVE OnceInv'
  <2>1. UnclaimedInv'
      BY <1>5 DEF SendLost, settings, consumers, results
  <2>2. OneWorksInv'
      BY <1>5 DEF SendLost, settings, consumers, results
  <2>3. UnservedInv'
      BY <1>5 DEF SendLost, settings, consumers, results
  <2>4. AtMostOnce'
      BY <1>5 DEF SendLost, settings, consumers, results
  <2> QED BY <2>1, <2>2, <2>3, <2>4
<1>6. ASSUME NEW m \in Message, KeyExpires(m) PROVE OnceInv'
  <2>1. UnclaimedInv'
      BY <1>6 DEF KeyExpires, settings, consumers, results
  <2>2. OneWorksInv'
      BY <1>6 DEF KeyExpires, settings, consumers, results
  <2>3. UnservedInv'
      BY <1>6 DEF KeyExpires, settings, consumers, results
  <2>4. AtMostOnce'
      BY <1>6 DEF KeyExpires, settings, consumers, results
  <2> QED BY <2>1, <2>2, <2>3, <2>4
<1>7. ASSUME NEW c \in Consumer, Claim(c) PROVE OnceInv'
  <2>1. UnclaimedInv'
      BY <1>7 DEF Claim, settings, results, history
  <2>2. OneWorksInv'
      BY <1>7 DEF Claim, settings, results, history
  <2>3. UnservedInv'
      BY <1>7 DEF Claim, settings, results, history
  <2>4. AtMostOnce'
      BY <1>7 DEF Claim, settings, results, history
  <2> QED BY <2>1, <2>2, <2>3, <2>4
<1>8. ASSUME NEW c \in Consumer, FindStatuses(c) PROVE OnceInv'
  <2>1. UnclaimedInv'
      BY <1>8 DEF FindStatuses, Receivers, settings, results, history
  <2>2. OneWorksInv'
      BY <1>8 DEF FindStatuses, Receivers, settings, results, history
  <2>3. UnservedInv'
      BY <1>8 DEF FindStatuses, Receivers, settings, results, history
  <2>4. AtMostOnce'
      BY <1>8 DEF FindStatuses, Receivers, settings, results, history
  <2> QED BY <2>1, <2>2, <2>3, <2>4
<1>9. ASSUME NEW c \in Consumer, Create(c) PROVE OnceInv'
  <2>1. UnclaimedInv'
      BY <1>9, CreateEffect DEF Create, settings, history
  <2>2. OneWorksInv'
      BY <1>9, CreateEffect DEF Create, settings, history
  <2>3. UnservedInv'
      BY <1>9, CreateEffect DEF Create, settings, history
  <2>4. AtMostOnce'
      BY <1>9, CreateEffect DEF Create, settings, history
  <2> QED BY <2>1, <2>2, <2>3, <2>4
<1>10. ASSUME NEW c \in Consumer, Push(c) PROVE OnceInv'
  <2>1. UnclaimedInv'
      BY <1>10, PushEffect DEF Push, settings, history
  <2>2. OneWorksInv'
      BY <1>10, PushEffect DEF Push, settings, history
  <2>3. UnservedInv'
      BY <1>10, PushEffect DEF Push, settings, history
  <2>4. AtMostOnce'
      BY <1>10, PushEffect DEF Push, settings, history
  <2> QED BY <2>1, <2>2, <2>3, <2>4
<1>11. ASSUME NEW c \in Consumer, PushFails(c) PROVE OnceInv'
  <2>1. UnclaimedInv'
      BY <1>11 DEF PushFails, settings, results
  <2>2. OneWorksInv'
      BY <1>11 DEF PushFails, settings, results
  <2>3. UnservedInv'
      BY <1>11 DEF PushFails, settings, results
  <2>4. AtMostOnce'
      BY <1>11 DEF PushFails, settings, results
  <2> QED BY <2>1, <2>2, <2>3, <2>4
<1>12. ASSUME NEW c \in Consumer, Fault(c) PROVE OnceInv'
  <2>1. UnclaimedInv'
      BY <1>12 DEF Fault, settings, results
  <2>2. OneWorksInv'
      BY <1>12 DEF Fault, settings, results
  <2>3. UnservedInv'
      BY <1>12 DEF Fault, settings, results
  <2>4. AtMostOnce'
      BY <1>12 DEF Fault, settings, results
  <2> QED BY <2>1, <2>2, <2>3, <2>4
<1>13. ASSUME NEW c \in Consumer, Commit(c) PROVE OnceInv'
  <2>1. UnclaimedInv'
      BY <1>13 DEF Commit, Returning, settings, results
  <2>2. OneWorksInv'
      BY <1>13 DEF Commit, Returning, settings, results
  <2>3. UnservedInv'
      BY <1>13 DEF Commit, Returning, settings, results
  <2>4. AtMostOnce'
      BY <1>13 DEF Commit, Returning, settings, results
  <2> QED BY <2>1, <2>2, <2>3, <2>4
<1>14. ASSUME NEW c \in Consumer, Crash(c) PROVE OnceInv'
  <2>1. UnclaimedInv'
      BY <1>14 DEF Crash, Returning, settings, results
  <2>2. OneWorksInv'
      BY <1>14 DEF Crash, Returning, settings, results
  <2>3. UnservedInv'
      BY <1>14 DEF Crash, Returning, settings, results
  <2>4. AtMostOnce'
      BY <1>14 DEF Crash, Returning, settings, results
  <2> QED BY <2>1, <2>2, <2>3, <2>4
<1>15. ASSUME NEW c \in Consumer, Rebalance(c) PROVE OnceInv'
  <2>1. UnclaimedInv'
      BY <1>15 DEF Rebalance, settings, consumers, results, history
  <2>2. OneWorksInv'
      BY <1>15 DEF Rebalance, settings, consumers, results, history
  <2>3. UnservedInv'
      BY <1>15 DEF Rebalance, settings, consumers, results, history
  <2>4. AtMostOnce'
      BY <1>15 DEF Rebalance, settings, consumers, results, history
  <2> QED BY <2>1, <2>2, <2>3, <2>4
<1> QED
    BY <1>1, <1>2, <1>3, <1>4, <1>5, <1>6, <1>7, <1>8,
       <1>9, <1>10, <1>11, <1>12, <1>13, <1>14, <1>15 DEF Next, Handle

-----------------------------------------------------------------------------
(* Create before push.                                                     *)

PushInv ==
    /\ PushedIsCreated
    /\ \A c \in Consumer : pc[c] = "send" => created[event[c]][at[c]] > 0

LEMMA PushInit == Init => PushInv
BY DEF Init, Nobody, PushInv, PushedIsCreated

LEMMA PushNext == FlowInv /\ PushInv /\ [Next]_vars => PushInv'
<1> SUFFICES ASSUME FlowInv, PushInv, [Next]_vars PROVE PushInv'
    OBVIOUS
<1> USE DEF PushInv, PushedIsCreated, FlowInv, TypeOK
<1>1. CASE UNCHANGED vars
      BY <1>1 DEF vars, settings, consumers, results, history
<1>2. ASSUME NEW u \in User, UpdateNotificationEnabled(u) PROVE PushInv'
      BY <1>2 DEF UpdateNotificationEnabled, consumers, results, history
<1>3. ASSUME NEW m \in Message, CreateMessage(m) PROVE PushInv'
      BY <1>3 DEF CreateMessage, consumers, results
<1>4. ASSUME NEW m \in Message, Send(m) PROVE PushInv'
      BY <1>4 DEF Send, settings, consumers, results, history
<1>5. ASSUME NEW m \in Message, SendLost(m) PROVE PushInv'
      BY <1>5 DEF SendLost, settings, consumers, results
<1>6. ASSUME NEW m \in Message, KeyExpires(m) PROVE PushInv'
      BY <1>6 DEF KeyExpires, settings, consumers, results
<1>7. ASSUME NEW c \in Consumer, Claim(c) PROVE PushInv'
      BY <1>7 DEF Claim, settings, results, history
<1>8. ASSUME NEW c \in Consumer, FindStatuses(c) PROVE PushInv'
      BY <1>8 DEF FindStatuses, Receivers, settings, results, history
<1>9. ASSUME NEW c \in Consumer, Create(c) PROVE PushInv'
      BY <1>9, CreateEffect DEF Create, settings, history
<1>10. ASSUME NEW c \in Consumer, Push(c) PROVE PushInv'
      BY <1>10, PushEffect DEF Push, settings, history
<1>11. ASSUME NEW c \in Consumer, PushFails(c) PROVE PushInv'
      BY <1>11 DEF PushFails, settings, results
<1>12. ASSUME NEW c \in Consumer, Fault(c) PROVE PushInv'
      BY <1>12 DEF Fault, settings, results
<1>13. ASSUME NEW c \in Consumer, Commit(c) PROVE PushInv'
      BY <1>13 DEF Commit, Returning, settings, results
<1>14. ASSUME NEW c \in Consumer, Crash(c) PROVE PushInv'
      BY <1>14 DEF Crash, Returning, settings, results
<1>15. ASSUME NEW c \in Consumer, Rebalance(c) PROVE PushInv'
      BY <1>15 DEF Rebalance, settings, consumers, results, history
<1> QED
    BY <1>1, <1>2, <1>3, <1>4, <1>5, <1>6, <1>7, <1>8,
       <1>9, <1>10, <1>11, <1>12, <1>13, <1>14, <1>15 DEF Next, Handle

-----------------------------------------------------------------------------
(* Who hears.                                                              *)

\* What the history says of the settings.
SettingsInv ==
    \A m \in Message :
        /\ m \notin committed => lasting[m] = {} /\ ever[m] = {}
        /\ m \in committed => lasting[m] \subseteq enabled /\ enabled \subseteq ever[m]

HearInv ==
    /\ OnlyEnabledHear
    /\ \A c \in Consumer : pc[c] \in {"next", "send"} =>
          todo[c] \subseteq ever[event[c]] \ {Author[event[c]]}

LEMMA SettingsInit == Init => SettingsInv
BY DEF Init, SettingsInv

LEMMA SettingsNext == FlowInv /\ SettingsInv /\ [Next]_vars => SettingsInv'
<1> SUFFICES ASSUME FlowInv, SettingsInv, [Next]_vars PROVE SettingsInv'
    OBVIOUS
<1> USE DEF SettingsInv, FlowInv, TypeOK
<1>1. CASE UNCHANGED vars
      BY <1>1 DEF vars, settings, consumers, results, history
<1>2. ASSUME NEW u \in User, UpdateNotificationEnabled(u) PROVE SettingsInv'
      BY <1>2 DEF UpdateNotificationEnabled, consumers, results, history
<1>3. ASSUME NEW m \in Message, CreateMessage(m) PROVE SettingsInv'
      BY <1>3 DEF CreateMessage, consumers, results
<1>4. ASSUME NEW m \in Message, Send(m) PROVE SettingsInv'
      BY <1>4 DEF Send, settings, consumers, results, history
<1>5. ASSUME NEW m \in Message, SendLost(m) PROVE SettingsInv'
      BY <1>5 DEF SendLost, settings, consumers, results
<1>6. ASSUME NEW m \in Message, KeyExpires(m) PROVE SettingsInv'
      BY <1>6 DEF KeyExpires, settings, consumers, results
<1>7. ASSUME NEW c \in Consumer, Claim(c) PROVE SettingsInv'
      BY <1>7 DEF Claim, settings, results, history
<1>8. ASSUME NEW c \in Consumer, FindStatuses(c) PROVE SettingsInv'
      BY <1>8 DEF FindStatuses, Receivers, settings, results, history
<1>9. ASSUME NEW c \in Consumer, Create(c) PROVE SettingsInv'
      BY <1>9, CreateEffect DEF Create, settings, history
<1>10. ASSUME NEW c \in Consumer, Push(c) PROVE SettingsInv'
      BY <1>10, PushEffect DEF Push, settings, history
<1>11. ASSUME NEW c \in Consumer, PushFails(c) PROVE SettingsInv'
      BY <1>11 DEF PushFails, settings, results
<1>12. ASSUME NEW c \in Consumer, Fault(c) PROVE SettingsInv'
      BY <1>12 DEF Fault, settings, results
<1>13. ASSUME NEW c \in Consumer, Commit(c) PROVE SettingsInv'
      BY <1>13 DEF Commit, Returning, settings, results
<1>14. ASSUME NEW c \in Consumer, Crash(c) PROVE SettingsInv'
      BY <1>14 DEF Crash, Returning, settings, results
<1>15. ASSUME NEW c \in Consumer, Rebalance(c) PROVE SettingsInv'
      BY <1>15 DEF Rebalance, settings, consumers, results, history
<1> QED
    BY <1>1, <1>2, <1>3, <1>4, <1>5, <1>6, <1>7, <1>8,
       <1>9, <1>10, <1>11, <1>12, <1>13, <1>14, <1>15 DEF Next, Handle

LEMMA HearInit == Init => HearInv
BY DEF Init, Nobody, HearInv, OnlyEnabledHear

LEMMA HearNext == FlowInv /\ SettingsInv /\ HearInv /\ [Next]_vars => HearInv'
<1> SUFFICES ASSUME FlowInv, SettingsInv, HearInv, [Next]_vars PROVE HearInv'
    OBVIOUS
<1> USE DEF HearInv, OnlyEnabledHear, SettingsInv, FlowInv, TypeOK
<1>1. CASE UNCHANGED vars
      BY <1>1 DEF vars, settings, consumers, results, history
<1>2. ASSUME NEW u \in User, UpdateNotificationEnabled(u) PROVE HearInv'
  <2>1. \A m \in Message : ever[m] \subseteq ever'[m]
    <3>1. CASE UNCHANGED ever
        BY <3>1
    <3>2. CASE ever' = [m \in Message |-> IF m \in committed THEN ever[m] \cup {u} ELSE ever[m]]
        BY <3>2
    <3> QED BY <1>2, <3>1, <3>2 DEF UpdateNotificationEnabled
  <2>2. UNCHANGED <<consumers, results>>
      BY <1>2 DEF UpdateNotificationEnabled
  <2> QED BY <2>1, <2>2 DEF consumers, results
<1>3. ASSUME NEW m \in Message, CreateMessage(m) PROVE HearInv'
      BY <1>3 DEF CreateMessage, consumers, results
<1>4. ASSUME NEW m \in Message, Send(m) PROVE HearInv'
      BY <1>4 DEF Send, settings, consumers, results, history
<1>5. ASSUME NEW m \in Message, SendLost(m) PROVE HearInv'
      BY <1>5 DEF SendLost, settings, consumers, results
<1>6. ASSUME NEW m \in Message, KeyExpires(m) PROVE HearInv'
      BY <1>6 DEF KeyExpires, settings, consumers, results
<1>7. ASSUME NEW c \in Consumer, Claim(c) PROVE HearInv'
      BY <1>7 DEF Claim, settings, results, history
<1>8. ASSUME NEW c \in Consumer, FindStatuses(c) PROVE HearInv'
      BY <1>8 DEF FindStatuses, Receivers, settings, results, history
<1>9. ASSUME NEW c \in Consumer, Create(c) PROVE HearInv'
      BY <1>9, CreateEffect DEF Create, settings, history
<1>10. ASSUME NEW c \in Consumer, Push(c) PROVE HearInv'
      BY <1>10, PushEffect DEF Push, settings, history
<1>11. ASSUME NEW c \in Consumer, PushFails(c) PROVE HearInv'
      BY <1>11 DEF PushFails, settings, results
<1>12. ASSUME NEW c \in Consumer, Fault(c) PROVE HearInv'
      BY <1>12 DEF Fault, settings, results
<1>13. ASSUME NEW c \in Consumer, Commit(c) PROVE HearInv'
      BY <1>13 DEF Commit, Returning, settings, results
<1>14. ASSUME NEW c \in Consumer, Crash(c) PROVE HearInv'
      BY <1>14 DEF Crash, Returning, settings, results
<1>15. ASSUME NEW c \in Consumer, Rebalance(c) PROVE HearInv'
      BY <1>15 DEF Rebalance, settings, consumers, results, history
<1> QED
    BY <1>1, <1>2, <1>3, <1>4, <1>5, <1>6, <1>7, <1>8,
       <1>9, <1>10, <1>11, <1>12, <1>13, <1>14, <1>15 DEF Next, Handle

-----------------------------------------------------------------------------
(* Nobody is left out.                                                     *)

Owed(m) == lasting[m] \ {Author[m]}
Served(m, u) == created[m][u] > 0 /\ pushed[m][u] > 0

ClaimedInv ==
    /\ handled \subseteq keys \cup lapsed \cup disturbed
    /\ \A c \in Consumer : pc[c] # "poll" => event[c] \in keys \cup lapsed \cup disturbed

(***************************************************************************)
(* Unless something went wrong with its handlers, a claimed message is     *)
(* being handled or has been; and its handler passes nobody over.          *)
(***************************************************************************)
InHandOrServed ==
    \A m \in Message \ disturbed :
        m \in keys \cup lapsed =>
            (\E c \in Consumer : Working(c, m)) \/ (\A u \in Owed(m) : Served(m, u))

NobodyPassedOver ==
    \A m \in Message \ disturbed, c \in Consumer :
        Working(c, m) /\ pc[c] # "find" =>
            \A u \in Owed(m) : u \in todo[c] \/ Served(m, u)

DoneInv == InHandOrServed /\ NobodyPassedOver

LEMMA ClaimedInit == Init => ClaimedInv
BY DEF Init, ClaimedInv

LEMMA ClaimedNext == FlowInv /\ ClaimedInv /\ [Next]_vars => ClaimedInv'
<1> SUFFICES ASSUME FlowInv, ClaimedInv, [Next]_vars PROVE ClaimedInv'
    OBVIOUS
<1> USE DEF ClaimedInv, FlowInv, TypeOK
<1>1. CASE UNCHANGED vars
      BY <1>1 DEF vars, settings, consumers, results, history
<1>2. ASSUME NEW u \in User, UpdateNotificationEnabled(u) PROVE ClaimedInv'
      BY <1>2 DEF UpdateNotificationEnabled, consumers, results, history
<1>3. ASSUME NEW m \in Message, CreateMessage(m) PROVE ClaimedInv'
      BY <1>3 DEF CreateMessage, consumers, results
<1>4. ASSUME NEW m \in Message, Send(m) PROVE ClaimedInv'
      BY <1>4 DEF Send, settings, consumers, results, history
<1>5. ASSUME NEW m \in Message, SendLost(m) PROVE ClaimedInv'
      BY <1>5 DEF SendLost, settings, consumers, results
<1>6. ASSUME NEW m \in Message, KeyExpires(m) PROVE ClaimedInv'
      BY <1>6 DEF KeyExpires, settings, consumers, results
<1>7. ASSUME NEW c \in Consumer, Claim(c) PROVE ClaimedInv'
      BY <1>7 DEF Claim, settings, results, history
<1>8. ASSUME NEW c \in Consumer, FindStatuses(c) PROVE ClaimedInv'
      BY <1>8 DEF FindStatuses, Receivers, settings, results, history
<1>9. ASSUME NEW c \in Consumer, Create(c) PROVE ClaimedInv'
      BY <1>9, CreateEffect DEF Create, settings, history
<1>10. ASSUME NEW c \in Consumer, Push(c) PROVE ClaimedInv'
      BY <1>10, PushEffect DEF Push, settings, history
<1>11. ASSUME NEW c \in Consumer, PushFails(c) PROVE ClaimedInv'
      BY <1>11 DEF PushFails, settings, results
<1>12. ASSUME NEW c \in Consumer, Fault(c) PROVE ClaimedInv'
      BY <1>12 DEF Fault, settings, results
<1>13. ASSUME NEW c \in Consumer, Commit(c) PROVE ClaimedInv'
      BY <1>13 DEF Commit, Returning, settings, results
<1>14. ASSUME NEW c \in Consumer, Crash(c) PROVE ClaimedInv'
      BY <1>14 DEF Crash, Returning, settings, results
<1>15. ASSUME NEW c \in Consumer, Rebalance(c) PROVE ClaimedInv'
      BY <1>15 DEF Rebalance, settings, consumers, results, history
<1> QED
    BY <1>1, <1>2, <1>3, <1>4, <1>5, <1>6, <1>7, <1>8,
       <1>9, <1>10, <1>11, <1>12, <1>13, <1>14, <1>15 DEF Next, Handle

LEMMA DoneInit == Init => DoneInv
BY DEF Init, DoneInv, InHandOrServed, NobodyPassedOver, Working

LEMMA DoneNext == FlowInv /\ PushInv /\ SettingsInv /\ ClaimedInv /\ DoneInv /\ [Next]_vars => DoneInv'
<1> SUFFICES ASSUME FlowInv, PushInv, SettingsInv, ClaimedInv, DoneInv, [Next]_vars PROVE DoneInv'
    OBVIOUS
<1> USE DEF DoneInv, InHandOrServed, NobodyPassedOver, Working, Owed, Served, PushInv, SettingsInv, ClaimedInv, FlowInv, TypeOK
<1>1. CASE UNCHANGED vars
      BY <1>1 DEF vars, settings, consumers, results, history
<1>2. ASSUME NEW u \in User, UpdateNotificationEnabled(u) PROVE DoneInv'
  <2>1. /\ UNCHANGED <<committed, keys, lapsed, disturbed, consumers, results>>
        /\ \A m \in Message : lasting'[m] \subseteq lasting[m]
      BY <1>2 DEF UpdateNotificationEnabled, history
  <2>2. InHandOrServed'
      BY <2>1 DEF consumers, results
  <2>3. NobodyPassedOver'
      BY <2>1 DEF consumers, results
  <2> QED BY <2>2, <2>3
<1>3. ASSUME NEW m \in Message, CreateMessage(m) PROVE DoneInv'
      BY <1>3 DEF CreateMessage, consumers, results
<1>4. ASSUME NEW m \in Message, Send(m) PROVE DoneInv'
      BY <1>4 DEF Send, settings, consumers, results, history
<1>5. ASSUME NEW m \in Message, SendLost(m) PROVE DoneInv'
      BY <1>5 DEF SendLost, settings, consumers, results
<1>6. ASSUME NEW m \in Message, KeyExpires(m) PROVE DoneInv'
  <2>1. /\ UNCHANGED <<pc, event, todo, created, pushed, lasting, disturbed>>
        /\ keys' \cup lapsed' = keys \cup lapsed
      BY <1>6 DEF KeyExpires, settings, consumers, results
  <2>2. InHandOrServed'
      BY <2>1
  <2>3. NobodyPassedOver'
      BY <2>1
  <2> QED BY <2>2, <2>3
<1>7. ASSUME NEW c \in Consumer, Claim(c) PROVE DoneInv'
  <2>1. InHandOrServed'
    <3> SUFFICES ASSUME NEW m \in Message \ disturbed', m \in keys' \cup lapsed',
                        \A d \in Consumer : ~Working(d, m)',
                        NEW u \in Owed(m)'
                 PROVE  Served(m, u)'
        OBVIOUS
    <3>1. /\ pc[c] = "poll" /\ pc' \in {[pc EXCEPT ![c] = "find"], [pc EXCEPT ![c] = "return"]}
          /\ event' = [event EXCEPT ![c] = event'[c]]
          /\ UNCHANGED <<created, pushed, lasting, lapsed, disturbed>>
        BY <1>7 DEF Claim, settings, results, history
    <3>2. m \in keys \cup lapsed
        BY <1>7 DEF Claim, history
    <3>3. \A d \in Consumer : ~Working(d, m)
        BY <3>1
    <3> QED BY <3>1, <3>2, <3>3
  <2>2. NobodyPassedOver'
      BY <1>7 DEF Claim, settings, results, history
  <2> QED BY <2>1, <2>2
<1>8. ASSUME NEW c \in Consumer, FindStatuses(c) PROVE DoneInv'
  <2>1. InHandOrServed'
      BY <1>8 DEF FindStatuses, Receivers, settings, results, history
  <2>2. NobodyPassedOver'
      BY <1>8 DEF FindStatuses, Receivers, settings, results, history
  <2> QED BY <2>1, <2>2
<1>9. ASSUME NEW c \in Consumer, Create(c) PROVE DoneInv'
  <2>1. InHandOrServed'
      BY SMTT(20), <1>9, CreateEffect DEF Create, settings, history
  <2>2. NobodyPassedOver'
      BY <1>9, CreateEffect DEF Create, settings, history
  <2> QED BY <2>1, <2>2
<1>10. ASSUME NEW c \in Consumer, Push(c) PROVE DoneInv'
  <2>1. InHandOrServed'
    <3> SUFFICES ASSUME NEW m \in Message \ disturbed', m \in keys' \cup lapsed',
                        \A d \in Consumer : ~Working(d, m)',
                        NEW u \in Owed(m)'
                 PROVE  Served(m, u)'
        OBVIOUS
    <3>1. /\ pc[c] = "send" /\ pc' = [pc EXCEPT ![c] = "next"]
          /\ UNCHANGED <<event, keys, created, lasting, lapsed, disturbed>>
        BY <1>10 DEF Push, settings, history
    <3>2. \A d \in Consumer : ~Working(d, m)
        BY <3>1
    <3>3. Served(m, u)
        BY <3>1, <3>2
    <3> QED BY <1>10, <3>1, <3>3, PushEffect
  <2>2. NobodyPassedOver'
      BY <1>10, PushEffect DEF Push, settings, history
  <2> QED BY <2>1, <2>2
<1>11. ASSUME NEW c \in Consumer, PushFails(c) PROVE DoneInv'
  <2>1. InHandOrServed'
      BY <1>11 DEF PushFails, settings, results
  <2>2. NobodyPassedOver'
      BY <1>11 DEF PushFails, settings, results
  <2> QED BY <2>1, <2>2
<1>12. ASSUME NEW c \in Consumer, Fault(c) PROVE DoneInv'
  <2>1. InHandOrServed'
    <3> SUFFICES ASSUME NEW m \in Message \ disturbed', m \in keys' \cup lapsed',
                        \A d \in Consumer : ~Working(d, m)',
                        NEW u \in Owed(m)'
                 PROVE  Served(m, u)'
        OBVIOUS
    <3>1. /\ UNCHANGED <<created, pushed, lasting, lapsed>>
          /\ disturbed' = disturbed \cup {event'[c]} /\ pc' = [pc EXCEPT ![c] = "return"]
        BY <1>12 DEF Fault, settings, results
    <3>2. /\ pc[c] = "poll" \/ event'[c] = event[c]
          /\ event' = [event EXCEPT ![c] = event'[c]]
          /\ keys' \in {keys, keys \cup {event'[c]}}
      <4>1. CASE UNCHANGED <<topic, event, keys>>
          BY <4>1
      <4>2. CASE pc[c] = "poll" /\ \E n \in topic :
                   /\ event' = [event EXCEPT ![c] = n] /\ keys' \in {keys, keys \cup {n}}
          BY <4>2
      <4> QED BY <1>12, <4>1, <4>2 DEF Fault
    <3>3. m \in keys \cup lapsed /\ m \notin disturbed /\ m # event'[c]
        BY <3>1, <3>2
    <3>4. \A d \in Consumer : ~Working(d, m)
        BY <3>1, <3>2, <3>3
    <3> QED BY <3>1, <3>3, <3>4
  <2>2. NobodyPassedOver'
      BY <1>12 DEF Fault, settings, results
  <2> QED BY <2>1, <2>2
<1>13. ASSUME NEW c \in Consumer, Commit(c) PROVE DoneInv'
  <2>1. InHandOrServed'
    <3> SUFFICES ASSUME NEW m \in Message \ disturbed', m \in keys' \cup lapsed',
                        \A d \in Consumer : ~Working(d, m)',
                        NEW u \in Owed(m)'
                 PROVE  Served(m, u)'
        OBVIOUS
    <3>1. /\ pc[c] = "return" \/ (pc[c] = "next" /\ todo[c] = {})
          /\ pc' = [pc EXCEPT ![c] = "poll"] /\ event' = [event EXCEPT ![c] = NoMessage]
          /\ UNCHANGED <<keys, created, pushed, lasting, lapsed, disturbed>>
        BY <1>13 DEF Commit, Returning, settings, results
    <3>2. \A d \in Consumer \ {c} : ~Working(d, m)
        BY <3>1
    <3>3. CASE Working(c, m)
        BY <3>1, <3>3
    <3>4. CASE ~Working(c, m)
        BY <3>1, <3>2, <3>4
    <3> QED BY <3>3, <3>4
  <2>2. NobodyPassedOver'
      BY <1>13 DEF Commit, Returning, settings, results
  <2> QED BY <2>1, <2>2
<1>14. ASSUME NEW c \in Consumer, Crash(c) PROVE DoneInv'
  <2>1. InHandOrServed'
      BY SMTT(20), <1>14 DEF Crash, Returning, settings, results
  <2>2. NobodyPassedOver'
      BY <1>14 DEF Crash, Returning, settings, results
  <2> QED BY <2>1, <2>2
<1>15. ASSUME NEW c \in Consumer, Rebalance(c) PROVE DoneInv'
      BY <1>15 DEF Rebalance, settings, consumers, results, history
<1> QED
    BY <1>1, <1>2, <1>3, <1>4, <1>5, <1>6, <1>7, <1>8,
       <1>9, <1>10, <1>11, <1>12, <1>13, <1>14, <1>15 DEF Next, Handle

-----------------------------------------------------------------------------
(* The theorems.                                                           *)

\* However often Kafka delivers a message, nobody is notified of it twice
\* until its key expires.
THEOREM OnceOnly == Spec => []AtMostOnce
<1>1. OnceInv => AtMostOnce
      BY DEF OnceInv
<1> QED
    BY FlowInit, FlowNext, OnceInit, OnceNext, <1>1, PTL DEF Spec

\* Nothing is pushed to a client that it could not read.
THEOREM CreatedBeforePushed == Spec => []PushedIsCreated
<1>1. PushInv => PushedIsCreated
      BY DEF PushInv
<1> QED
    BY FlowInit, FlowNext, PushInit, PushNext, <1>1, PTL DEF Spec

\* Only users who had them enabled at some time since the message are notified.
THEOREM EnabledHear == Spec => []OnlyEnabledHear
<1>1. HearInv => OnlyEnabledHear
      BY DEF HearInv
<1> QED
    BY FlowInit, FlowNext, SettingsInit, SettingsNext, HearInit, HearNext, <1>1, PTL DEF Spec

\* A settled message with undisturbed handlers has reached everybody who had
\* them enabled all along.
THEOREM Complete == Spec => []UndisturbedIsComplete
<1>1. FlowInv /\ ClaimedInv /\ DoneInv => UndisturbedIsComplete
      BY DEF FlowInv, TypeOK, ClaimedInv, DoneInv, InHandOrServed, UndisturbedIsComplete, Settled, Working, Owed, Served
<1> QED
    BY FlowInit, FlowNext, PushInit, PushNext, SettingsInit, SettingsNext,
       ClaimedInit, ClaimedNext, DoneInit, DoneNext, <1>1, PTL DEF Spec
=============================================================================
