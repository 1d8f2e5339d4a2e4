------------------------------ MODULE TopicLog ------------------------------
(***************************************************************************)
(* What every backend promises of a hub: the `Hub` protocol and the        *)
(* `Subscription` of storage/hub.py.  A topic is a log.  A publish appends *)
(* to it, a reader keeps its own place, and a poll that finds anything     *)
(* returns everything still retained after that place, in order.  Events   *)
(* are forgotten by age, by number or with their topic, never moved.       *)
(***************************************************************************)
EXTENDS Naturals, Sequences, Ordered

CONSTANTS
    Topic, Reader,
    Message,
    Nowhere     \* the place of a reader that has not subscribed

VARIABLES
    log,        \* [Topic -> Seq(Message)]: everything ever published
    kept,       \* [Topic -> set of indexes into log still readable]
    place,      \* [Reader -> index of the last event read, or Nowhere]
    following,  \* [Reader -> its topic, or Nowhere]
    got         \* [Reader -> Seq(Message)]: what its polls returned

vars == <<log, kept, place, following, got>>

Init ==
    /\ log = [t \in Topic |-> <<>>]
    /\ kept = [t \in Topic |-> {}]
    /\ place = [r \in Reader |-> Nowhere]
    /\ following = [r \in Reader |-> Nowhere]
    /\ got = [r \in Reader |-> <<>>]

\* Append, and forget whatever the append pushes out.
Publish(t, m) ==
    /\ log' = [log EXCEPT ![t] = Append(@, m)]
    /\ \E K \in SUBSET kept[t] : kept' = [kept EXCEPT ![t] = K \cup {Len(log[t]) + 1}]
    /\ UNCHANGED <<place, following, got>>

Forget ==
    /\ \E t \in Topic : \E K \in SUBSET kept[t] : kept' = [kept EXCEPT ![t] = K]
    /\ UNCHANGED <<log, place, following, got>>

\* Sweeps take events of every topic at once.
ForgetAcross ==
    /\ kept' \in [Topic -> SUBSET UNION {kept[t] : t \in Topic}]
    /\ \A t \in Topic : kept'[t] \subseteq kept[t]
    /\ UNCHANGED <<log, place, following, got>>

\* Read after now: from a place with nothing readable behind it.
Subscribe(r, t) ==
    /\ \E n \in 0..Len(log[t]) :
        /\ \A i \in kept[t] : i <= n
        /\ place' = [place EXCEPT ![r] = n]
    /\ following' = [following EXCEPT ![r] = t]
    /\ got' = [got EXCEPT ![r] = <<>>]
    /\ UNCHANGED <<log, kept>>

Newest(I) == CHOOSE i \in I : \A j \in I : j <= i

\* Read after an event that was seen before: what is retained after it is read
\* at once.
Resume(r, t, n) ==
    /\ n \in 0..Len(log[t])
    /\ following' = [following EXCEPT ![r] = t]
    /\ LET unread == {i \in kept[t] : i > n} IN
       /\ got' = [got EXCEPT ![r] = At(log[t], unread)]
       /\ place' = [place EXCEPT ![r] = IF unread = {} THEN n ELSE Newest(unread)]
    /\ UNCHANGED <<log, kept>>

\* A topic that is done goes, and its readers with it.
Close(t) ==
    /\ kept' = [kept EXCEPT ![t] = {}]
    /\ following' = [r \in Reader |-> IF following[r] = t THEN Nowhere ELSE following[r]]
    /\ place' = [r \in Reader |-> IF following[r] = t THEN Nowhere ELSE place[r]]
    /\ UNCHANGED <<log, got>>

Unread(r) == {i \in kept[following[r]] : i > place[r]}

Poll(r) ==
    /\ following[r] # Nowhere
    /\ Unread(r) # {}
    /\ got' = [got EXCEPT ![r] = @ \o At(log[following[r]], Unread(r))]
    /\ place' = [place EXCEPT ![r] = Newest(Unread(r))]
    /\ UNCHANGED <<log, kept, following>>

Next ==
    \/ \E t \in Topic : Close(t) \/ \E m \in Message : Publish(t, m)
    \/ Forget \/ ForgetAcross
    \/ \E r \in Reader : Poll(r) \/ \E t \in Topic :
            Subscribe(r, t) \/ \E n \in 0..Len(log[t]) : Resume(r, t, n)

Spec == Init /\ [][Next]_vars
=============================================================================
