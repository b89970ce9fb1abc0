---------------------------- MODULE SseMessageLog ----------------------------
(***************************************************************************)
(* What SseMessageRepository promises BasicSseService: that it can be      *)
(* taken for a log.                                                        *)
(*                                                                         *)
(*   - A message is saved at one instant, behind all others.               *)
(*   - What is forgotten is the oldest, never before there were more than  *)
(*     the limit, and never one of the newest Retained.                    *)
(*   - A client that reconnects is answered with what the log had after    *)
(*     its message at one instant of the call, but for what was forgotten  *)
(*     by the end of it; or with nothing, but only if the message it asks  *)
(*     by is forgotten itself.                                             *)
(***************************************************************************)
EXTENDS Integers, Sequences

CONSTANTS
    Message,    \* the messages
    Thread,     \* the threads that save
    MaxSize,    \* the limit
    Retained    \* how many of the newest are never forgotten

NoMessage == "none"

VARIABLES
    saved,      \* the log
    forgotten,  \* how much of it has been forgotten
    saving,     \* what each thread is about to save
    asking,     \* the message a client asks by, while it is being answered
    since,      \* how long the log was when it asked
    answer      \* the answer it was given

vars == <<saved, forgotten, saving, asking, since, answer>>

Kept == forgotten + 1 .. Len(saved)

Init ==
    /\ saved = <<>> /\ forgotten = 0
    /\ saving = [t \in Thread |-> NoMessage]
    /\ asking = NoMessage
    /\ since = 0
    /\ answer = {}

\* save is called ...
Accept(t, m) ==
    /\ saving[t] = NoMessage
    /\ saving' = [saving EXCEPT ![t] = m]
    /\ UNCHANGED <<saved, forgotten, asking, since, answer>>

\* ... and the message is in the log.
Save(t) ==
    /\ saving[t] # NoMessage
    /\ \A i \in DOMAIN saved : saved[i] # saving[t]
    /\ saved' = Append(saved, saving[t])
    /\ saving' = [saving EXCEPT ![t] = NoMessage]
    /\ UNCHANGED <<forgotten, asking, since, answer>>

Forget ==
    /\ Len(saved) > MaxSize
    /\ forgotten < Len(saved) /\ forgotten < Len(saved) - Retained
    /\ forgotten' = forgotten + 1
    /\ UNCHANGED <<saved, saving, asking, since, answer>>

\* findEventsAfter is called, with a message that was sent once.
Ask ==
    /\ asking = NoMessage
    /\ asking' \in {saved[i] : i \in DOMAIN saved}
    /\ since' = Len(saved)
    /\ answer' = {}
    /\ UNCHANGED <<saved, forgotten, saving>>

\* The answer, when the message asked by is the p-th: the log up to some place.
After(p) ==
    \E end \in since .. Len(saved) :
        /\ answer' \in SUBSET {saved[i] : i \in p + 1 .. end}
        /\ {saved[i] : i \in Kept \intersect (p + 1 .. end)} \subseteq answer'

\* The message asked by has been forgotten.
Nothing(p) == p \notin Kept /\ answer' = {}

\* findEventsAfter returns.
Answer ==
    /\ asking # NoMessage
    /\ \E p \in DOMAIN saved : saved[p] = asking /\ (After(p) \/ Nothing(p))
    /\ asking' = NoMessage
    /\ UNCHANGED <<saved, forgotten, saving, since>>

Next ==
    \/ \E t \in Thread : (\E m \in Message : Accept(t, m)) \/ Save(t)
    \/ Forget
    \/ Ask \/ Answer

Spec == Init /\ [][Next]_vars
=============================================================================
