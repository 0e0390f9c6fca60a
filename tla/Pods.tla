--------------------------------- MODULE Pods ---------------------------------
(***************************************************************************)
(* community/pods.py: the pods of a cohort, their members and their weekly    *)
(* posts.  Each request goes from transaction to transaction, so two that   *)
(* overlap decide on the same count, and a post is announced in Discord      *)
(* before it is stored.  Nothing in the code ends a membership.            *)
(***************************************************************************)
EXTENDS Integers, Sequences, FiniteSets

CONSTANTS
  Peer, Cohort,     \* students; the ISO weeks cohorts start in
  Week,             \* week numbers of posts
  PodSeat,          \* request threads
  Capacity,         \* MAX_POD_CAPACITY
  Letters,          \* letters a pod is named with
  MaxPods, MaxPosts \* bounds the pods, and the posts Discord or the table has

ASSUME PodsAssumption ==
  /\ Capacity \in Nat \ {0} /\ Letters \in Nat \ {0} /\ MaxPods \in Nat /\ MaxPosts \in Nat
  /\ IsFiniteSet(PodSeat) /\ 0 \notin Week

VARIABLES
  pods,       \* the pods, in the order of their ids: cohort and letter
  members,    \* pod_memberships
  assigned,   \* memberships there is a pod.assigned event of
  posts,      \* pod_posts: pod, student, week and whether Discord answered
  posted,     \* pod.post_submitted events, in their order
  relayed,    \* posts Discord has a message of, stored or not
  podSeat     \* the request of each thread

podsVars == <<pods, members, assigned, posts, posted, relayed, podSeat>>

Vacant == [op |-> "free"]

PodsInit ==
  /\ pods = <<>> /\ members = {} /\ assigned = {}
  /\ posts = {} /\ posted = <<>> /\ relayed = {}
  /\ podSeat = [d \in PodSeat |-> Vacant]

AtSeat(d, request) == podSeat' = [podSeat EXCEPT ![d] = request]
PodsOf(s)    == {m.pod : m \in {n \in members : n.student = s}}
MembersOf(p) == {m \in members : m.pod = p}

-----------------------------------------------------------------------------
(* assign_student_to_pod: who has a pod keeps it.                          *)
AskForPod(d, s, cohort) ==
  /\ podSeat[d] = Vacant /\ PodsOf(s) = {}
  /\ AtSeat(d, [op |-> "find", student |-> s, cohort |-> cohort])
  /\ UNCHANGED <<pods, members, assigned, posts, posted, relayed>>

WithRoom(cohort) ==
  {p \in DOMAIN pods : pods[p].cohort = cohort /\ Cardinality(MembersOf(p)) < Capacity}

(* Faulty variant: any pod of the cohort is taken, full or not.            *)
FindAnyPod(d) ==
  LET r == podSeat[d]
      some == {p \in DOMAIN pods : pods[p].cohort = r.cohort}
  IN /\ r.op = "find"
     /\ AtSeat(d, IF some = {}
                    THEN [op |-> "count", student |-> r.student, cohort |-> r.cohort]
                    ELSE [op |-> "join", student |-> r.student, pod |-> CHOOSE p \in some : TRUE])
     /\ UNCHANGED <<pods, members, assigned, posts, posted, relayed>>

(* The oldest pod of the cohort with room is taken,                        *)
FindPod(d) ==
  LET r == podSeat[d]
      room == WithRoom(r.cohort)
  IN /\ r.op = "find"
     /\ AtSeat(d, IF room = {}
                    THEN [op |-> "count", student |-> r.student, cohort |-> r.cohort]
                    ELSE [op |-> "join", student |-> r.student,
                          pod |-> CHOOSE p \in room : \A q \in room : p <= q])
     /\ UNCHANGED <<pods, members, assigned, posts, posted, relayed>>

(* or else one is named after their number ...                             *)
CountPods(d) ==
  LET r == podSeat[d]
      n == Cardinality({p \in DOMAIN pods : pods[p].cohort = r.cohort})
  IN /\ r.op = "count"
     /\ AtSeat(d, [op |-> "create", student |-> r.student, cohort |-> r.cohort, letter |-> n % Letters])
     /\ UNCHANGED <<pods, members, assigned, posts, posted, relayed>>

(* ... and created; names may repeat.                                      *)
CreatePod(d) ==
  LET r == podSeat[d]
  IN /\ r.op = "create" /\ Len(pods) < MaxPods
     /\ pods' = Append(pods, [cohort |-> r.cohort, letter |-> r.letter])
     /\ AtSeat(d, [op |-> "join", student |-> r.student, pod |-> Len(pods) + 1])
     /\ UNCHANGED <<members, assigned, posts, posted, relayed>>

(* The membership and its event; one that exists is left as it is, but     *)
(* announced again.                                                        *)
JoinPod(d) ==
  LET m == [pod |-> podSeat[d].pod, student |-> podSeat[d].student]
  IN /\ podSeat[d].op = "join"
     /\ members' = members \cup {m}
     /\ assigned' = assigned \cup {m}
     /\ AtSeat(d, Vacant)
     /\ UNCHANGED <<pods, posts, posted, relayed>>

-----------------------------------------------------------------------------
PostOf(s, p, w) == [pod |-> p, student |-> s, week |-> w]
Stored(key)     == \E x \in posts : x.key = key
Seen            == relayed \cup {x.key : x \in posts}

(* submit_pod_post: a member who has not posted this week ...              *)
SubmitPost(d, s, p, w) ==
  /\ podSeat[d] = Vacant /\ p \in PodsOf(s) /\ w >= 1
  /\ PostOf(s, p, w) \in Seen \/ Cardinality(Seen) < MaxPosts
  /\ AtSeat(d, [op |-> "unseen", key |-> PostOf(s, p, w)])
  /\ UNCHANGED <<pods, members, assigned, posts, posted, relayed>>

CheckDuplicate(d) ==
  LET key == podSeat[d].key
  IN /\ podSeat[d].op = "unseen"
     /\ AtSeat(d, IF Stored(key) THEN Vacant ELSE [op |-> "relay", key |-> key])
     /\ UNCHANGED <<pods, members, assigned, posts, posted, relayed>>

(* ... has it relayed to Discord; whether Discord has it and whether it     *)
(* says so are two things, and neither stops the post.                     *)
RelayPost(d) ==
  LET key == podSeat[d].key
  IN /\ podSeat[d].op = "relay"
     /\ \/ \E answer \in BOOLEAN :
             /\ relayed' = relayed \cup {key}
             /\ AtSeat(d, [op |-> "post", key |-> key, answer |-> answer])
        \/ /\ AtSeat(d, [op |-> "post", key |-> key, answer |-> FALSE])
           /\ UNCHANGED relayed
     /\ UNCHANGED <<pods, members, assigned, posts, posted>>

(* The post and its event; a second one of the week is refused here.       *)
StorePost(d) ==
  LET r == podSeat[d]
  IN /\ r.op = "post"
     /\ IF Stored(r.key)
          THEN UNCHANGED <<posts, posted>>
          ELSE /\ posts' = posts \cup {[key |-> r.key, answer |-> r.answer]}
               /\ posted' = Append(posted, r.key)
     /\ AtSeat(d, Vacant)
     /\ UNCHANGED <<pods, members, assigned, relayed>>

(* A request may die with its pod created and empty, or its post announced   *)
(* and not stored; one that only has read leaves nothing behind.           *)
PodRequestDies(d) ==
  /\ podSeat[d].op \in {"join", "post"} /\ AtSeat(d, Vacant)
  /\ UNCHANGED <<pods, members, assigned, posts, posted, relayed>>

(* get_pod_posts, and the peers of get_student_pod_details.                *)
PodPosts(p, weeks) == {x \in posts : x.key.pod = p /\ x.key.week \in weeks}
Peers(s) == IF PodsOf(s) = {} THEN {} ELSE {m.student : m \in MembersOf(CHOOSE p \in PodsOf(s) : TRUE)}

PodsNext ==
  \E d \in PodSeat :
    \/ \E s \in Peer, cohort \in Cohort : AskForPod(d, s, cohort)
    \/ FindPod(d) \/ CountPods(d) \/ CreatePod(d) \/ JoinPod(d)
    \/ \E s \in Peer, p \in DOMAIN pods, w \in Week : SubmitPost(d, s, p, w)
    \/ CheckDuplicate(d) \/ RelayPost(d) \/ StorePost(d) \/ PodRequestDies(d)

PodsSpec == PodsInit /\ [][PodsNext]_podsVars

-----------------------------------------------------------------------------
PodsTypeOK ==
  /\ pods \in Seq([cohort : Cohort, letter : 0..Letters - 1])
  /\ members \subseteq [pod : DOMAIN pods, student : Peer]
  /\ assigned \subseteq members
  /\ relayed \subseteq [pod : Nat, student : Peer, week : Week]

(* What overlapping requests can do to a pod is bounded by how many overlap: *)
(* each can overfill it by one, and give its student one pod more.  Every   *)
(* member was announced, and every post is by a member, is stored and       *)
(* announced once a week, and Discord has what it confirmed.                *)
PodsBounded ==
  LET overlap == Cardinality(PodSeat) - 1
  IN /\ \A p \in DOMAIN pods : Cardinality(MembersOf(p)) <= Capacity + overlap
     /\ \A s \in Peer : Cardinality(PodsOf(s)) <= 1 + overlap
     /\ members \subseteq assigned
     /\ \A x, y \in posts : x.key = y.key => x = y
     /\ \A x \in posts :
          /\ \E s \in Peer : x.key.student \in Peers(s)
          /\ Cardinality({i \in DOMAIN posted : posted[i] = x.key}) = 1
          /\ x.answer => x.key \in relayed
=============================================================================
