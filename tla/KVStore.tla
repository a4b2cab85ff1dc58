------------------------------ MODULE KVStore ------------------------------
(***************************************************************************)
(* What one Server promises the Clients it serves, with no tiers, workers  *)
(* or channels in it: requests are served one at a time, a key holds the   *)
(* bytes its last landed PUT wrote or nothing, and it forgets them only for *)
(* a REMOVE, a PUT of the same key, or a PUT of a new key into a full store.*)
(***************************************************************************)
EXTENDS FiniteSets

CONSTANTS
    Keys,
    Capacity,     \* keys the store can hold
    Missing,      \* what a key that is not stored holds
    NoRequest,
    Present,      \* the answer to an EXISTS of a stored key
    Written(_)    \* the bytes a PUT of this value writes

VARIABLES
    kv,           \* the bytes each key holds
    asked,        \* the request being served: kind, key and value
    answer        \* the answer to the last GET or EXISTS

Init ==
    /\ kv = [k \in Keys |-> Missing]
    /\ asked = NoRequest
    /\ answer = Missing

Ask ==
    /\ asked = NoRequest
    /\ asked' # NoRequest
    /\ answer' = Missing
    /\ UNCHANGED kv

Stored == { k \in Keys : kv[k] # Missing }

\* A PUT first drops what its own key held; a new key may push another one out,
\* but only of a store that is full.
Forget(k) ==
    /\ asked # NoRequest /\ asked.kind = "PUT"
    /\ k = asked.key \/ (asked.key \notin Stored /\ Cardinality(Stored) = Capacity)
    /\ kv' = [kv EXCEPT ![k] = Missing]
    /\ UNCHANGED <<asked, answer>>

Land ==
    /\ asked # NoRequest /\ asked.kind = "PUT"
    /\ kv[asked.key] = Missing
    /\ kv' = [kv EXCEPT ![asked.key] = Written(asked.val)]
    /\ UNCHANGED <<asked, answer>>

AnswerPut ==
    /\ asked # NoRequest /\ asked.kind = "PUT"
    /\ kv[asked.key] = Written(asked.val)
    /\ asked' = NoRequest
    /\ UNCHANGED <<kv, answer>>

AnswerGet ==
    /\ asked # NoRequest /\ asked.kind = "GET"
    /\ answer' = kv[asked.key]
    /\ asked' = NoRequest
    /\ UNCHANGED kv

AnswerExists ==
    /\ asked # NoRequest /\ asked.kind = "EXISTS"
    /\ answer' = IF asked.key \in Stored THEN Present ELSE Missing
    /\ asked' = NoRequest
    /\ UNCHANGED kv

Erase ==
    /\ asked # NoRequest /\ asked.kind = "REMOVE"
    /\ kv' = [kv EXCEPT ![asked.key] = Missing]
    /\ UNCHANGED <<asked, answer>>

AnswerRemove ==
    /\ asked # NoRequest /\ asked.kind = "REMOVE"
    /\ kv[asked.key] = Missing
    /\ asked' = NoRequest
    /\ UNCHANGED <<kv, answer>>

\* Barriers and moves between tiers say nothing about what is stored.
AnswerOther ==
    /\ asked # NoRequest
    /\ asked.kind \in {"COMMIT_BARRIER", "MOVE_TO_HOST", "MOVE_TO_DEVICE"}
    /\ asked' = NoRequest
    /\ UNCHANGED <<kv, answer>>

Next ==
    \/ Ask \/ Land \/ AnswerPut \/ AnswerGet \/ AnswerExists \/ Erase \/ AnswerRemove \/ AnswerOther
    \/ \E k \in Keys : Forget(k)

Spec == Init /\ [][Next]_<<kv, asked, answer>>
=============================================================================
