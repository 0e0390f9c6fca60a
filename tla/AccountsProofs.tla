----------------------------- MODULE AccountsProofs -----------------------------
(***************************************************************************)
(* Proofs about the enroll service.  Billing: an enrollment is paid for,   *)
(* granted or comped, whatever becomes of tabs and webhooks.               *)
(* Authentication: who has a session has an account and one students row,  *)
(* and a confirmed reset leaves no older session alive.  For any students, *)
(* courses, tabs, persons, identities, request threads and bounds, and     *)
(* through failing requests and crashes.                                   *)
(***************************************************************************)
EXTENDS Billing, Auth, DataTheorems

Owner == Payer \cup {Nobody}
Sold  == [state : {"none", "open", "offered", "paid"}, payer : Owner, course : Course]
Used  == [state : {"none", "ready", "offered", "completed"}, payer : Owner,
          news : Seq({"active", "past_due", "canceled"})]

(* A session is stored before its address is handed out, by the one tab     *)
(* that created it; and only what was paid comes back.                     *)
TabStripe(b) ==
  tab[b].op = "session" =>
    /\ tab[b].session \in Session /\ stripe[tab[b].session].state = "open"
    /\ \A c \in Tab : tab[c].op = "session" /\ tab[c].session = tab[b].session => c = b

StripeOK ==
  /\ stripe \in [Session -> Sold] /\ checkouts = [s \in Session |-> checkouts[s]]
  /\ \A s \in Session : stripe[s].state \in {"offered", "paid"} => checkouts[s] # "none"
  /\ \A s \in Session : stripe[s].state # "none" => stripe[s].payer \in Payer
  /\ \A b \in Tab : TabStripe(b)
  /\ \A m \in webhooks : m.type = "session" => m.session \in Session /\ stripe[m.session].state = "paid"

(* A transaction has its student from the start and its signup before its   *)
(* address; and rows are written of completed ones.                        *)
TabPaddle(b) ==
  /\ tab[b].op = "subscribe" => tab[b].payer \in Payer
  /\ tab[b].op = "signup" => tab[b].txn \in Txn /\ paddle[tab[b].txn].state # "none"

Completed(t) == t \in Txn /\ paddle[t].state = "completed"

PaddleOK ==
  /\ paddle \in [Txn -> Used] /\ signups \in Seq(Txn)
  /\ \A t \in Txn : paddle[t].state # "none" => paddle[t].payer \in Payer
  /\ \A t \in Txn : paddle[t].state \in {"offered", "completed"} => \E i \in DOMAIN signups : signups[i] = t
  /\ \A b \in Tab : TabPaddle(b)
  /\ \A m \in webhooks : m.type \in {"transaction", "subscription"} => Completed(m.txn)

RowsOK ==
  /\ payments = [t \in Txn |-> payments[t]] /\ subscriptions = [t \in Txn |-> subscriptions[t]]
  /\ \A t \in Txn : payments[t] # "none" => Completed(t) /\ payments[t] = paddle[t].payer
  /\ \A t \in Txn : subscriptions[t] # NoRow => Completed(t) /\ subscriptions[t].payer = paddle[t].payer

(* What an enrollment rests on stays: what is paid is not taken back.       *)
Funded(p, c, by) ==
  CASE by = "free" -> c = FreeCourse
    [] by = "subscription" -> \E t \in Txn : paddle[t].payer = p /\ paddle[t].state = "completed"
    [] OTHER -> stripe[by] = [state |-> "paid", payer |-> p, course |-> c]

TabGrant(b) ==
  tab[b].op = "grant" =>
    /\ tab[b].payer \in Payer /\ tab[b].course \in Course
    /\ tab[b].by \in {"free", "subscription"} /\ Funded(tab[b].payer, tab[b].course, tab[b].by)

GrantsOK ==
  /\ \A b \in Tab : TabGrant(b)
  /\ \A e \in enrollments :
       /\ e.payer \in Payer /\ e.course \in Course
       /\ e.by \in Session \cup {"free", "subscription"} /\ Funded(e.payer, e.course, e.by)
       /\ e.payer \in budgets
  /\ \A e, f \in enrollments : f.payer = e.payer /\ f.course = e.course => f = e
  /\ unknown = 0

(* Enrollments and their events are one to one.                            *)
AnnouncedOK ==
  /\ activated \in Seq(Payer \X Course)
  /\ \A e \in enrollments : \E i \in DOMAIN activated : activated[i] = <<e.payer, e.course>>
  /\ \A i \in DOMAIN activated : \E e \in enrollments : activated[i] = <<e.payer, e.course>>
  /\ \A i, j \in DOMAIN activated : activated[i] = activated[j] => i = j

TabOK == tab = [b \in Tab |-> tab[b]]

BillingInv == TabOK /\ StripeOK /\ PaddleOK /\ RowsOK /\ GrantsOK /\ AnnouncedOK

-----------------------------------------------------------------------------
(* A request moves on in its own tab.                                      *)
LEMMA TabMoves ==
  ASSUME TabOK, NEW b \in Tab, NEW request, tab' = [tab EXCEPT ![b] = request]
  PROVE  TabOK' /\ tab'[b] = request /\ \A c \in Tab : c # b => tab'[c] = tab[c]
BY DEF TabOK

(* What the providers know only grows.                                     *)
Forward ==
  /\ \A s \in Session : stripe[s].state = "paid" => stripe'[s] = stripe[s]
  /\ \A t \in Txn : paddle[t].state = "completed" =>
       paddle'[t].state = "completed" /\ paddle'[t].payer = paddle[t].payer

(* What was paid for stays paid for.                                       *)
LEMMA FundedStays ==
  ASSUME Forward, NEW p, NEW c, NEW by \in Session \cup {"free", "subscription"}, Funded(p, c, by)
  PROVE  Funded(p, c, by)'
<1>1. CASE by = "free"
  BY <1>1 DEF Funded
<1>2. CASE by = "subscription"
  BY <1>2 DEF Funded, Forward
<1>3. CASE by \in Session /\ by \notin {"free", "subscription"}
  <2>1. stripe[by] = [state |-> "paid", payer |-> p, course |-> c]
    BY <1>3 DEF Funded
  <2>2. stripe'[by] = stripe[by]
    BY <1>3, <2>1 DEF Forward
  <2> QED
    BY <1>3, <2>1, <2>2 DEF Funded
<1> QED
  BY <1>1, <1>2, <1>3

(* What a step that leaves one side alone keeps of it.                     *)
LEMMA StripeFrame ==
  ASSUME StripeOK, UNCHANGED <<stripe, checkouts>>,
         \A c \in Tab : tab'[c] = tab[c] \/ tab'[c].op # "session",
         \A m \in webhooks' : m \in webhooks \/ m.type # "session"
  PROVE  StripeOK'
<1>1. \A b \in Tab : TabStripe(b)'
  BY DEF StripeOK, TabStripe
<1>2. \A m \in webhooks' : m.type = "session" => m.session \in Session /\ stripe'[m.session].state = "paid"
  BY DEF StripeOK
<1> QED
  BY <1>1, <1>2 DEF StripeOK

(* What is kept of Paddle where a step sends it nothing.                   *)
LEMMA PaddleFrame ==
  ASSUME PaddleOK, UNCHANGED <<paddle, signups>>,
         \A c \in Tab : tab'[c] = tab[c] \/ tab'[c].op \notin {"subscribe", "signup"},
         \A m \in webhooks' : m \in webhooks \/ m.type = "session"
  PROVE  PaddleOK'
<1>1. \A b \in Tab : TabPaddle(b)'
  BY DEF PaddleOK, TabPaddle
<1>2. \A m \in webhooks' : m.type \in {"transaction", "subscription"} => Completed(m.txn)'
  BY DEF PaddleOK, Completed
<1> QED
  BY <1>1, <1>2 DEF PaddleOK

(* What is kept of the rows where a step writes none.                      *)
LEMMA RowsFrame ==
  ASSUME RowsOK, Forward, UNCHANGED <<payments, subscriptions>>
  PROVE  RowsOK'
BY DEF RowsOK, Forward, Completed

(* What is kept of the grants where a step makes none.                     *)
LEMMA GrantsFrame ==
  ASSUME GrantsOK, Forward, UNCHANGED <<enrollments, budgets, unknown>>,
         \A c \in Tab : tab'[c] = tab[c] \/ tab'[c].op # "grant"
  PROVE  GrantsOK'
<1>1. ASSUME NEW b \in Tab PROVE TabGrant(b)'
  <2>1. CASE tab'[b].op # "grant"
    BY <2>1 DEF TabGrant
  <2>2. CASE tab'[b] = tab[b] /\ tab[b].op = "grant"
    <3>1. /\ tab[b].payer \in Payer /\ tab[b].course \in Course
          /\ tab[b].by \in {"free", "subscription"} /\ Funded(tab[b].payer, tab[b].course, tab[b].by)
      BY <2>2 DEF GrantsOK, TabGrant
    <3>2. \A p, c, by : by = tab[b].by /\ p = tab[b].payer /\ c = tab[b].course => Funded(p, c, by)'
      BY <3>1, FundedStays
    <3> QED
      BY <2>2, <3>1, <3>2 DEF TabGrant, Funded
  <2> QED
    BY <2>1, <2>2
<1>2. \A e \in enrollments : Funded(e.payer, e.course, e.by)'
  BY FundedStays DEF GrantsOK
<1> QED
  BY <1>1, <1>2 DEF GrantsOK

(* What is kept of the announcements where a step makes none.              *)
LEMMA AnnouncedFrame ==
  ASSUME AnnouncedOK, UNCHANGED <<enrollments, activated>>
  PROVE  AnnouncedOK'
BY DEF AnnouncedOK

(* Where nothing is paid, nothing that was paid is lost.                   *)
LEMMA ForwardSame == ASSUME UNCHANGED <<stripe, paddle>> PROVE Forward
BY DEF Forward

(* At first nothing is offered, paid or granted.                           *)
LEMMA InitBilling == ASSUME BillingInit PROVE BillingInv
<1> USE DEF BillingInit
<1>1. TabOK
  BY DEF TabOK
<1>2. StripeOK
  BY BillingAssumption DEF StripeOK, TabStripe, Unsold, Sold, Owner, Idle
<1>3. PaddleOK
  BY BillingAssumption DEF PaddleOK, TabPaddle, Unused, Used, Owner, Idle
<1>4. RowsOK
  BY DEF RowsOK
<1>5. GrantsOK /\ AnnouncedOK
  BY DEF GrantsOK, AnnouncedOK, TabGrant, Idle
<1> QED
  BY <1>1, <1>2, <1>3, <1>4, <1>5 DEF BillingInv

-----------------------------------------------------------------------------
(* The steps of a tab.                                                     *)
LEMMA CreateSessionStep ==
  ASSUME BillingInv, NEW b \in Tab, NEW p \in Payer, NEW c \in Course, CreateStripeSession(b, p, c)
  PROVE  BillingInv'
<1>1. PICK s \in Session :
        /\ stripe[s].state = "none"
        /\ stripe' = [stripe EXCEPT ![s] = [state |-> "open", payer |-> p, course |-> c]]
        /\ tab' = [tab EXCEPT ![b] = [op |-> "session", session |-> s]]
        /\ UNCHANGED <<paddle, webhooks, checkouts, signups, Unsettled>>
  BY DEF CreateStripeSession
<1> DEFINE request == [op |-> "session", session |-> s]
<1>2. TabOK' /\ tab'[b] = request /\ \A d \in Tab : d # b => tab'[d] = tab[d]
  BY <1>1, TabMoves DEF BillingInv
<1>3. stripe \in [Session -> Sold]
  BY DEF BillingInv, StripeOK
<1>4. stripe' \in [Session -> Sold] /\ stripe'[s].state = "open" /\ stripe'[s].payer = p /\ \A x \in Session : x # s => stripe'[x] = stripe[x]
  BY <1>1, <1>3 DEF Sold, Owner
<1>5. Forward
  BY <1>1, <1>4 DEF Forward
<1>6. StripeOK'
  <2>1. \A x \in Session : stripe'[x].state \in {"offered", "paid"} => checkouts'[x] # "none"
    BY <1>1, <1>4 DEF BillingInv, StripeOK, Unsettled
  <2>2. ASSUME NEW d \in Tab, d # b, tab[d].op = "session" PROVE tab[d].session # s
    BY <1>1, <2>2 DEF BillingInv, StripeOK, TabStripe
  <2>3. ASSUME NEW d \in Tab PROVE TabStripe(d)'
    <3>1. CASE d = b
      BY <1>2, <1>4, <2>2, <3>1 DEF TabStripe
    <3>2. CASE d # b /\ tab[d].op = "session"
      <4>1. tab[d].session \in Session /\ stripe[tab[d].session].state = "open" /\ tab[d].session # s
            /\ \A e \in Tab : tab[e].op = "session" /\ tab[e].session = tab[d].session => e = d
        BY <2>2, <3>2 DEF BillingInv, StripeOK, TabStripe
      <4>2. \A e \in Tab : tab'[e].op = "session" /\ tab'[e].session = tab[d].session => e = d
        BY <1>2, <4>1
      <4> QED
        BY <1>2, <1>4, <3>2, <4>1, <4>2 DEF TabStripe
    <3>3. CASE d # b /\ tab[d].op # "session"
      BY <1>2, <3>3 DEF TabStripe
    <3> QED
      BY <3>1, <3>2, <3>3
  <2>4. \A m \in webhooks' : m.type = "session" => m.session \in Session /\ stripe'[m.session].state = "paid"
    BY <1>1, <1>4 DEF BillingInv, StripeOK
  <2>5. \A x \in Session : stripe'[x].state # "none" => stripe'[x].payer \in Payer
    BY <1>4 DEF BillingInv, StripeOK
  <2> QED
    BY <1>1, <1>4, <2>1, <2>3, <2>4, <2>5 DEF BillingInv, StripeOK
<1>7. \A d \in Tab : tab'[d] = tab[d] \/ tab'[d].op \notin {"subscribe", "signup", "grant"}
  BY <1>2
<1>8. PaddleOK' /\ RowsOK' /\ GrantsOK' /\ AnnouncedOK'
  <2> USE <1>1, <1>5, <1>7 DEF BillingInv, Unsettled
  <2>1. PaddleOK'
    BY PaddleFrame
  <2>2. RowsOK'
    BY RowsFrame
  <2>3. GrantsOK' /\ AnnouncedOK'
    BY GrantsFrame, AnnouncedFrame
  <2> QED
    BY <2>1, <2>2, <2>3
<1> QED
  BY <1>2, <1>6, <1>8 DEF BillingInv

(* The address of a session is out only with its row.                      *)
LEMMA StoreSessionStep ==
  ASSUME BillingInv, NEW b \in Tab, StoreSession(b)
  PROVE  BillingInv'
<1> DEFINE s == tab[b].session
<1>1. /\ tab[b].op = "session" /\ tab' = [tab EXCEPT ![b] = Idle]
      /\ \/ /\ checkouts' = [checkouts EXCEPT ![s] = "pending"]
            /\ stripe' = [stripe EXCEPT ![s].state = "offered"]
         \/ UNCHANGED <<checkouts, stripe>>
      /\ UNCHANGED <<paddle, webhooks, signups, Unsettled>>
  BY DEF StoreSession
<1>2. TabOK' /\ tab'[b] = Idle /\ \A d \in Tab : d # b => tab'[d] = tab[d]
  BY <1>1, TabMoves DEF BillingInv
<1>3. Idle.op = "idle"
  BY DEF Idle
<1>4. /\ s \in Session /\ stripe[s].state = "open"
      /\ \A d \in Tab : tab[d].op = "session" /\ tab[d].session = s => d = b
  BY <1>1 DEF BillingInv, StripeOK, TabStripe
<1> HIDE DEF s
<1>5. stripe \in [Session -> Sold]
  BY DEF BillingInv, StripeOK
<1>6. /\ stripe' \in [Session -> Sold] /\ \A x \in Session : x # s => stripe'[x] = stripe[x]
      /\ stripe'[s].state # "paid" /\ stripe'[s].payer = stripe[s].payer
  <2>1. CASE UNCHANGED stripe
    BY <1>4, <1>5, <2>1
  <2>2. CASE stripe' = [stripe EXCEPT ![s].state = "offered"]
    BY <1>4, <1>5, <2>2 DEF Sold
  <2> QED
    BY <1>1, <2>1, <2>2
<1>7. Forward
  BY <1>1, <1>4, <1>6 DEF Forward
<1>8. StripeOK'
  <2>1. checkouts' = [x \in Session |-> checkouts'[x]]
        /\ \A x \in Session : stripe'[x].state \in {"offered", "paid"} => checkouts'[x] # "none"
    <3>1. CASE UNCHANGED <<checkouts, stripe>>
      BY <3>1 DEF BillingInv, StripeOK
    <3>2. CASE checkouts' = [checkouts EXCEPT ![s] = "pending"]
      BY <1>6, <3>2 DEF BillingInv, StripeOK
    <3> QED
      BY <1>1, <3>1, <3>2
  <2>2. ASSUME NEW d \in Tab PROVE TabStripe(d)'
    <3>1. CASE d = b
      BY <1>2, <1>3, <3>1 DEF TabStripe
    <3>2. CASE d # b /\ tab[d].op = "session"
      <4>1. tab[d].session \in Session /\ stripe[tab[d].session].state = "open" /\ tab[d].session # s
            /\ \A e \in Tab : tab[e].op = "session" /\ tab[e].session = tab[d].session => e = d
        BY <1>4, <3>2 DEF BillingInv, StripeOK, TabStripe
      <4>2. \A e \in Tab : tab'[e].op = "session" /\ tab'[e].session = tab[d].session => e = d
        BY <1>2, <1>3, <4>1
      <4> QED
        BY <1>2, <1>6, <3>2, <4>1, <4>2 DEF TabStripe
    <3>3. CASE d # b /\ tab[d].op # "session"
      BY <1>2, <3>3 DEF TabStripe
    <3> QED
      BY <3>1, <3>2, <3>3
  <2>3. \A m \in webhooks' : m.type = "session" => m.session \in Session /\ stripe'[m.session].state = "paid"
    BY <1>1, <1>4, <1>6 DEF BillingInv, StripeOK
  <2>4. \A x \in Session : stripe'[x].state # "none" => stripe'[x].payer \in Payer
    BY <1>4, <1>6 DEF BillingInv, StripeOK
  <2> QED
    BY <1>6, <2>1, <2>2, <2>3, <2>4 DEF StripeOK
<1>9. \A d \in Tab : tab'[d] = tab[d] \/ tab'[d].op \notin {"subscribe", "signup", "grant"}
  BY <1>2, <1>3
<1>10. PaddleOK' /\ RowsOK' /\ GrantsOK' /\ AnnouncedOK'
  <2> USE <1>1, <1>7, <1>9 DEF BillingInv, Unsettled
  <2>1. PaddleOK'
    BY PaddleFrame
  <2>2. RowsOK'
    BY RowsFrame
  <2>3. GrantsOK' /\ AnnouncedOK'
    BY GrantsFrame, AnnouncedFrame
  <2> QED
    BY <2>1, <2>2, <2>3
<1> QED
  BY <1>2, <1>8, <1>10 DEF BillingInv

(* Reading, reusing, checking and giving up change the tab alone.          *)
LEMMA TabStep ==
  ASSUME BillingInv, NEW b \in Tab,
         \/ ReuseTransaction(b) \/ PaddleFails(b)
         \/ \E p \in Payer : ReadSignup(b, p) \/ \E c \in Course : EnrollCheck(b, p, c)
  PROVE  BillingInv'
<1>1. ASSUME NEW request, tab' = [tab EXCEPT ![b] = request],
             UNCHANGED <<stripe, paddle, webhooks, checkouts, signups, Unsettled>>,
             request.op # "session",
             request.op = "subscribe" => request.payer \in Payer,
             request.op = "signup" => request.txn \in Txn /\ paddle[request.txn].state # "none",
             request.op = "grant" =>
               /\ request.payer \in Payer /\ request.course \in Course
               /\ request.by \in {"free", "subscription"} /\ Funded(request.payer, request.course, request.by)
      PROVE  BillingInv'
  <2>1. TabOK' /\ tab'[b] = request /\ \A d \in Tab : d # b => tab'[d] = tab[d]
    BY <1>1, TabMoves DEF BillingInv
  <2>2. Forward
    BY <1>1, ForwardSame
  <2>3. StripeOK' /\ RowsOK' /\ AnnouncedOK'
    BY <1>1, <2>1, <2>2, StripeFrame, RowsFrame, AnnouncedFrame DEF BillingInv, Unsettled
  <2>4. PaddleOK'
    <3>1. ASSUME NEW d \in Tab PROVE TabPaddle(d)'
      <4>1. CASE d = b
        BY <1>1, <2>1, <4>1 DEF TabPaddle
      <4>2. CASE d # b
        <5>1. TabPaddle(d) /\ tab'[d] = tab[d]
          BY <2>1, <4>2 DEF BillingInv, PaddleOK
        <5> QED
          BY <1>1, <5>1 DEF TabPaddle
      <4> QED
        BY <4>1, <4>2
    <3> QED
      BY <1>1, <3>1 DEF BillingInv, PaddleOK, Completed
  <2>5. GrantsOK'
    <3>1. ASSUME NEW d \in Tab PROVE TabGrant(d)'
      <4>1. CASE d = b
        BY <1>1, <2>1, <4>1 DEF TabGrant, Funded
      <4>2. CASE d # b
        <5>1. TabGrant(d) /\ tab'[d] = tab[d]
          BY <2>1, <4>2 DEF BillingInv, GrantsOK
        <5> QED
          BY <1>1, <5>1 DEF TabGrant, Funded
      <4> QED
        BY <4>1, <4>2
    <3> QED
      BY <1>1, <3>1 DEF BillingInv, GrantsOK, Unsettled, Funded
  <2> QED
    BY <2>1, <2>3, <2>4, <2>5 DEF BillingInv
<1>2. CASE PaddleFails(b)
  <2>1. Idle.op = "idle"
    BY DEF Idle
  <2> QED
    BY <1>1, <1>2, <2>1 DEF PaddleFails
<1>3. CASE ReuseTransaction(b)
  <2> DEFINE t == tab[b].last
  <2>1. t \in Txn /\ paddle[t].state # "none" /\ tab' = [tab EXCEPT ![b] = [op |-> "signup", txn |-> t]]
        /\ UNCHANGED <<stripe, paddle, webhooks, checkouts, signups, Unsettled>>
    BY <1>3 DEF ReuseTransaction
  <2> DEFINE request == [op |-> "signup", txn |-> t]
  <2>2. request.op = "signup" /\ request.txn = t
    OBVIOUS
  <2> HIDE DEF t, request
  <2>3. tab' = [tab EXCEPT ![b] = request]
    BY <2>1 DEF request
  <2> QED
    BY <1>1, <2>1, <2>2, <2>3
<1>4. ASSUME NEW p \in Payer, ReadSignup(b, p) PROVE BillingInv'
  <2> DEFINE request == [op |-> "subscribe", payer |-> p, last |-> LastSignup(p)]
  <2>1. tab' = [tab EXCEPT ![b] = request]
        /\ UNCHANGED <<stripe, paddle, webhooks, checkouts, signups, Unsettled>>
    BY <1>4 DEF ReadSignup
  <2>2. request.op = "subscribe" /\ request.payer = p
    OBVIOUS
  <2> HIDE DEF request
  <2> QED
    BY <1>1, <2>1, <2>2
<1>5. ASSUME NEW p \in Payer, NEW c \in Course, EnrollCheck(b, p, c) PROVE BillingInv'
  <2> DEFINE by == IF HasSubscription(p) THEN "subscription" ELSE "free"
  <2>1. tab' = [tab EXCEPT ![b] = [op |-> "grant", payer |-> p, course |-> c, by |-> by]]
        /\ UNCHANGED <<stripe, paddle, webhooks, checkouts, signups, Unsettled>>
        /\ (HasSubscription(p) \/ c = FreeCourse)
    BY <1>5 DEF EnrollCheck
  <2>2. by \in {"free", "subscription"} /\ Funded(p, c, by)
    <3>1. CASE HasSubscription(p)
      <4>1. PICK t \in Txn : subscriptions[t].status \in Active /\ subscriptions[t].payer = p
        BY <3>1 DEF HasSubscription
      <4>2. subscriptions[t] # NoRow
        BY <4>1 DEF NoRow, Active
      <4>3. paddle[t].payer = p /\ paddle[t].state = "completed"
        BY <4>1, <4>2 DEF BillingInv, RowsOK, Completed
      <4> QED
        BY <3>1, <4>3 DEF Funded
    <3>2. CASE ~HasSubscription(p)
      BY <2>1, <3>2 DEF Funded
    <3> QED
      BY <3>1, <3>2
  <2> DEFINE request == [op |-> "grant", payer |-> p, course |-> c, by |-> by]
  <2>3. request.op = "grant" /\ request.payer = p /\ request.course = c /\ request.by = by
    OBVIOUS
  <2> HIDE DEF by, request
  <2>4. tab' = [tab EXCEPT ![b] = request]
    BY <2>1 DEF request
  <2> QED
    BY <1>1, <2>1, <2>2, <2>3, <2>4
<1> QED
  BY <1>2, <1>3, <1>4, <1>5

(* A new transaction belongs to who asked for it.                          *)
LEMMA NewTransactionStep ==
  ASSUME BillingInv, NEW b \in Tab, NewTransaction(b)
  PROVE  BillingInv'
<1> DEFINE p == tab[b].payer
<1>1. tab[b].op = "subscribe" /\ p \in Payer
  BY DEF NewTransaction, BillingInv, PaddleOK, TabPaddle
<1>2. PICK t \in Txn :
        /\ paddle[t].state = "none"
        /\ paddle' = [paddle EXCEPT ![t] = [paddle[t] EXCEPT !.state = "ready", !.payer = p]]
        /\ tab' = [tab EXCEPT ![b] = [op |-> "signup", txn |-> t]]
        /\ UNCHANGED <<stripe, webhooks, checkouts, signups, Unsettled>>
  BY DEF NewTransaction
<1> HIDE DEF p
<1> DEFINE request == [op |-> "signup", txn |-> t]
<1>3. TabOK' /\ tab'[b] = request /\ \A d \in Tab : d # b => tab'[d] = tab[d]
  BY <1>2, TabMoves DEF BillingInv
<1>4. paddle \in [Txn -> Used]
  BY DEF BillingInv, PaddleOK
<1>5. /\ paddle' \in [Txn -> Used] /\ paddle'[t].state = "ready" /\ paddle'[t].payer = p
      /\ \A u \in Txn : u # t => paddle'[u] = paddle[u]
  <2> DEFINE new == [paddle[t] EXCEPT !.state = "ready", !.payer = p]
  <2>1. paddle[t] \in Used
    BY <1>4
  <2>2. new \in Used /\ new.state = "ready" /\ new.payer = p
    BY <1>1, <2>1 DEF Used, Owner
  <2>3. paddle' = [paddle EXCEPT ![t] = new]
    BY <1>2
  <2> HIDE DEF new
  <2> QED
    BY <1>4, <2>2, <2>3
<1>6. Forward
  BY <1>2, <1>5 DEF Forward
<1>7. PaddleOK'
  <2>1. \A u \in Txn : paddle'[u].state # "none" => paddle'[u].payer \in Payer
    BY <1>1, <1>5 DEF BillingInv, PaddleOK
  <2>2. \A u \in Txn : paddle'[u].state \in {"offered", "completed"} => \E i \in DOMAIN signups : signups[i] = u
    BY <1>5 DEF BillingInv, PaddleOK
  <2>3. ASSUME NEW d \in Tab PROVE TabPaddle(d)'
    <3>1. CASE d = b
      BY <1>3, <1>5, <3>1 DEF TabPaddle
    <3>2. CASE d # b
      <4>1. TabPaddle(d) /\ tab'[d] = tab[d]
        BY <1>3, <3>2 DEF BillingInv, PaddleOK
      <4> QED
        BY <1>5, <4>1 DEF TabPaddle
    <3> QED
      BY <3>1, <3>2
  <2>4. \A m \in webhooks : m.type \in {"transaction", "subscription"} => Completed(m.txn)'
    BY <1>2, <1>5 DEF BillingInv, PaddleOK, Completed
  <2> QED
    BY <1>2, <1>5, <2>1, <2>2, <2>3, <2>4 DEF BillingInv, PaddleOK
<1>8. \A d \in Tab : tab'[d] = tab[d] \/ tab'[d].op \notin {"session", "grant"}
  BY <1>3
<1>9. StripeOK' /\ RowsOK' /\ GrantsOK' /\ AnnouncedOK'
  <2> USE <1>2, <1>6, <1>8 DEF BillingInv, Unsettled
  <2>1. StripeOK'
    BY StripeFrame
  <2>2. RowsOK'
    BY RowsFrame
  <2>3. GrantsOK' /\ AnnouncedOK'
    BY GrantsFrame, AnnouncedFrame
  <2> QED
    BY <2>1, <2>2, <2>3
<1> QED
  BY <1>3, <1>7, <1>9 DEF BillingInv

(* The address of a transaction is out only with its signup.               *)
LEMMA StoreSignupStep ==
  ASSUME BillingInv, NEW b \in Tab, StoreSignup(b)
  PROVE  BillingInv'
<1> DEFINE t == tab[b].txn
<1>1. /\ tab[b].op = "signup" /\ tab' = [tab EXCEPT ![b] = Idle]
      /\ \/ /\ signups' = IF \E i \in DOMAIN signups : signups[i] = t THEN signups ELSE Append(signups, t)
            /\ paddle' = [paddle EXCEPT ![t].state = IF paddle[t].state = "ready" THEN "offered" ELSE paddle[t].state]
         \/ UNCHANGED <<signups, paddle>>
      /\ UNCHANGED <<stripe, webhooks, checkouts, Unsettled>>
  BY DEF StoreSignup
<1>2. TabOK' /\ tab'[b] = Idle /\ \A d \in Tab : d # b => tab'[d] = tab[d]
  BY <1>1, TabMoves DEF BillingInv
<1>3. Idle.op = "idle"
  BY DEF Idle
<1>4. t \in Txn /\ paddle[t].state # "none" /\ signups \in Seq(Txn) /\ paddle \in [Txn -> Used]
  BY <1>1 DEF BillingInv, PaddleOK, TabPaddle
<1> HIDE DEF t
<1>5. /\ paddle' \in [Txn -> Used]
      /\ \A u \in Txn : /\ paddle'[u].payer = paddle[u].payer
                        /\ paddle'[u].state = "none" <=> paddle[u].state = "none"
                        /\ paddle'[u].state = "completed" <=> paddle[u].state = "completed"
                        /\ u # t => paddle'[u].state = paddle[u].state
  <2>1. CASE UNCHANGED paddle
    BY <1>4, <2>1
  <2>2. CASE paddle' = [paddle EXCEPT ![t].state = IF paddle[t].state = "ready" THEN "offered" ELSE paddle[t].state]
    <3>1. paddle[t] \in Used
      BY <1>4
    <3> DEFINE new == [paddle[t] EXCEPT !.state = IF paddle[t].state = "ready" THEN "offered" ELSE paddle[t].state]
    <3>2. /\ new \in Used /\ new.payer = paddle[t].payer
          /\ new.state = "none" <=> paddle[t].state = "none"
          /\ new.state = "completed" <=> paddle[t].state = "completed"
      BY <3>1 DEF Used
    <3>3. paddle' = [paddle EXCEPT ![t] = new]
      BY <2>2
    <3> HIDE DEF new
    <3> QED
      BY <1>4, <3>2, <3>3
  <2> QED
    BY <1>1, <2>1, <2>2
<1>6. Forward
  BY <1>1, <1>5 DEF Forward
<1>7. /\ signups' \in Seq(Txn)
      /\ \A u : (\E i \in DOMAIN signups : signups[i] = u) => \E i \in DOMAIN signups' : signups'[i] = u
      /\ UNCHANGED <<signups, paddle>> \/ \E i \in DOMAIN signups' : signups'[i] = t
  <2>1. CASE UNCHANGED signups /\ (UNCHANGED paddle \/ \E i \in DOMAIN signups : signups[i] = t)
    BY <1>4, <2>1
  <2>2. CASE signups' = Append(signups, t)
    <3>1. /\ signups' \in Seq(Txn) /\ DOMAIN signups = 1 .. Len(signups) /\ Len(signups) \in Nat
          /\ DOMAIN signups' = 1 .. Len(signups) + 1 /\ signups'[Len(signups) + 1] = t
          /\ \A i \in 1 .. Len(signups) : signups'[i] = signups[i]
      BY <1>4, <2>2, AppendFacts
    <3>2. \A i \in DOMAIN signups : i \in DOMAIN signups' /\ signups'[i] = signups[i]
      BY <3>1
    <3>3. Len(signups) + 1 \in DOMAIN signups'
      BY <3>1
    <3> QED
      BY <3>1, <3>2, <3>3
  <2> QED
    BY <1>1, <2>1, <2>2
<1>8. PaddleOK'
  <2>1. \A u \in Txn : paddle'[u].state # "none" => paddle'[u].payer \in Payer
    BY <1>5 DEF BillingInv, PaddleOK
  <2>2. ASSUME NEW u \in Txn, paddle'[u].state \in {"offered", "completed"}
        PROVE  \E i \in DOMAIN signups' : signups'[i] = u
    <3>1. CASE u # t \/ UNCHANGED <<signups, paddle>>
      <4>1. paddle[u].state \in {"offered", "completed"}
        BY <1>5, <2>2, <3>1
      <4>2. \E i \in DOMAIN signups : signups[i] = u
        BY <4>1 DEF BillingInv, PaddleOK
      <4> QED
        BY <1>7, <4>2
    <3>2. CASE u = t
      BY <1>7, <3>1, <3>2
    <3> QED
      BY <3>1, <3>2
  <2>3. ASSUME NEW d \in Tab PROVE TabPaddle(d)'
    <3>1. CASE d = b
      BY <1>2, <1>3, <3>1 DEF TabPaddle
    <3>2. CASE d # b
      <4>1. TabPaddle(d) /\ tab'[d] = tab[d]
        BY <1>2, <3>2 DEF BillingInv, PaddleOK
      <4> QED
        BY <1>5, <4>1 DEF TabPaddle
    <3> QED
      BY <3>1, <3>2
  <2>4. \A m \in webhooks : m.type \in {"transaction", "subscription"} => Completed(m.txn)'
    BY <1>1, <1>5 DEF BillingInv, PaddleOK, Completed
  <2> QED
    BY <1>1, <1>5, <1>7, <2>1, <2>2, <2>3, <2>4 DEF PaddleOK
<1>9. \A d \in Tab : tab'[d] = tab[d] \/ tab'[d].op \notin {"session", "grant"}
  BY <1>2, <1>3
<1>10. StripeOK' /\ RowsOK' /\ GrantsOK' /\ AnnouncedOK'
  <2> USE <1>1, <1>6, <1>9 DEF BillingInv, Unsettled
  <2>1. StripeOK'
    BY StripeFrame
  <2>2. RowsOK'
    BY RowsFrame
  <2>3. GrantsOK' /\ AnnouncedOK'
    BY GrantsFrame, AnnouncedFrame
  <2> QED
    BY <2>1, <2>2, <2>3
<1> QED
  BY <1>2, <1>8, <1>10 DEF BillingInv

(* The statement that enrolls: a row and its event, or neither.            *)
LEMMA EnrollStep ==
  ASSUME GrantsOK, AnnouncedOK, Forward, UNCHANGED unknown,
         NEW p \in Payer, NEW c \in Course, NEW by \in Session \cup {"free", "subscription"},
         Funded(p, c, by), EnrollOnce(p, c, by),
         \A d \in Tab : tab'[d] = tab[d] \/ tab'[d].op # "grant"
  PROVE  GrantsOK' /\ AnnouncedOK'
<1>1. CASE \E e \in enrollments : e.payer = p /\ e.course = c
  <2>1. UNCHANGED <<enrollments, activated, budgets>>
    BY <1>1 DEF EnrollOnce
  <2> QED
    BY <2>1, GrantsFrame, AnnouncedFrame
<1>2. CASE ~ \E e \in enrollments : e.payer = p /\ e.course = c
  <2> DEFINE new == [payer |-> p, course |-> c, by |-> by]
  <2>1. /\ enrollments' = enrollments \cup {new} /\ activated' = Append(activated, <<p, c>>)
        /\ budgets' = budgets \cup {p}
    BY <1>2 DEF EnrollOnce
  <2>2. new.payer = p /\ new.course = c /\ new.by = by
    OBVIOUS
  <2> HIDE DEF new
  <2>3. ASSUME NEW d \in Tab PROVE TabGrant(d)'
    <3>1. CASE tab'[d].op # "grant"
      BY <3>1 DEF TabGrant
    <3>2. CASE tab'[d] = tab[d] /\ tab[d].op = "grant"
      <4>1. /\ tab[d].payer \in Payer /\ tab[d].course \in Course
            /\ tab[d].by \in {"free", "subscription"} /\ Funded(tab[d].payer, tab[d].course, tab[d].by)
        BY <3>2 DEF GrantsOK, TabGrant
      <4>2. \A q, k, w : w = tab[d].by /\ q = tab[d].payer /\ k = tab[d].course => Funded(q, k, w)'
        BY <4>1, FundedStays
      <4> QED
        BY <3>2, <4>1, <4>2 DEF TabGrant, Funded
    <3> QED
      BY <3>1, <3>2
  <2>4. Funded(p, c, by)' /\ \A e \in enrollments : Funded(e.payer, e.course, e.by)'
    BY FundedStays DEF GrantsOK
  <2>5. ASSUME NEW e \in enrollments'
        PROVE  /\ e.payer \in Payer /\ e.course \in Course
               /\ e.by \in Session \cup {"free", "subscription"} /\ Funded(e.payer, e.course, e.by)'
               /\ e.payer \in budgets'
    <3>1. CASE e \in enrollments
      BY <2>1, <2>4, <3>1 DEF GrantsOK
    <3>2. CASE e = new
      BY <2>1, <2>2, <2>4, <3>2 DEF Funded
    <3> QED
      BY <2>1, <3>1, <3>2
  <2>6. \A e, f \in enrollments' : f.payer = e.payer /\ f.course = e.course => f = e
    BY <1>2, <2>1, <2>2 DEF GrantsOK
  <2>7. GrantsOK'
    BY <2>3, <2>5, <2>6 DEF GrantsOK
  <2>8. activated \in Seq(Payer \X Course) /\ <<p, c>> \in Payer \X Course
    BY DEF AnnouncedOK
  <2>9. /\ activated' \in Seq(Payer \X Course) /\ DOMAIN activated = 1 .. Len(activated)
        /\ Len(activated) \in Nat
        /\ DOMAIN activated' = 1 .. Len(activated) + 1 /\ activated'[Len(activated) + 1] = <<p, c>>
        /\ \A i \in 1 .. Len(activated) : activated'[i] = activated[i]
    BY <2>1, <2>8, AppendFacts
  <2>10. /\ \A i \in DOMAIN activated : i \in DOMAIN activated' /\ activated'[i] = activated[i]
         /\ \A i \in DOMAIN activated' : i \in DOMAIN activated \/ i = Len(activated) + 1
         /\ Len(activated) + 1 \in DOMAIN activated'
    BY <2>9
  <2>11. \A e \in enrollments' : \E i \in DOMAIN activated' : activated'[i] = <<e.payer, e.course>>
    <3>1. ASSUME NEW e \in enrollments PROVE \E i \in DOMAIN activated' : activated'[i] = <<e.payer, e.course>>
      BY <2>10 DEF AnnouncedOK
    <3>2. \E i \in DOMAIN activated' : activated'[i] = <<new.payer, new.course>>
      BY <2>2, <2>9, <2>10
    <3> QED
      BY <2>1, <3>1, <3>2
  <2>12. \A i \in DOMAIN activated' : \E e \in enrollments' : activated'[i] = <<e.payer, e.course>>
    <3>1. ASSUME NEW i \in DOMAIN activated PROVE \E e \in enrollments' : activated'[i] = <<e.payer, e.course>>
      BY <2>1, <2>10 DEF AnnouncedOK
    <3>2. \E e \in enrollments' : activated'[Len(activated) + 1] = <<e.payer, e.course>>
      BY <2>1, <2>2, <2>9
    <3> QED
      BY <2>10, <3>1, <3>2
  <2>13. ASSUME NEW i \in DOMAIN activated PROVE activated[i] # <<p, c>>
    <3>1. PICK e \in enrollments : activated[i] = <<e.payer, e.course>>
      BY DEF AnnouncedOK
    <3>2. ~ (e.payer = p /\ e.course = c)
      BY <1>2
    <3>3. <<e.payer, e.course>> # <<p, c>>
      BY <3>2
    <3> QED
      BY <3>1, <3>3
  <2>14. \A i, j \in DOMAIN activated' : activated'[i] = activated'[j] => i = j
    <3>1. ASSUME NEW i \in DOMAIN activated', NEW j \in DOMAIN activated', activated'[i] = activated'[j]
          PROVE  i = j
      <4>1. CASE i \in DOMAIN activated /\ j \in DOMAIN activated
        BY <2>10, <3>1, <4>1 DEF AnnouncedOK
      <4>2. CASE i \notin DOMAIN activated /\ j \in DOMAIN activated
        <5>1. i = Len(activated) + 1 /\ activated[j] = <<p, c>>
          BY <2>9, <2>10, <3>1, <4>2
        <5> QED
          BY <2>13, <4>2, <5>1
      <4>3. CASE i \in DOMAIN activated /\ j \notin DOMAIN activated
        <5>1. j = Len(activated) + 1 /\ activated[i] = <<p, c>>
          BY <2>9, <2>10, <3>1, <4>3
        <5> QED
          BY <2>13, <4>3, <5>1
      <4>4. CASE i \notin DOMAIN activated /\ j \notin DOMAIN activated
        BY <2>10, <4>4
      <4> QED
        BY <4>1, <4>2, <4>3, <4>4
    <3> QED
      BY <3>1
  <2> QED
    BY <2>7, <2>9, <2>11, <2>12, <2>14 DEF AnnouncedOK
<1> QED
  BY <1>1, <1>2

(* A grant is made for what funded it.                                     *)
LEMMA GrantStep ==
  ASSUME BillingInv, NEW b \in Tab, Grant(b)
  PROVE  BillingInv'
<1>1. /\ tab[b].op = "grant" /\ tab' = [tab EXCEPT ![b] = Idle] /\ Idle.op = "idle"
      /\ EnrollOnce(tab[b].payer, tab[b].course, tab[b].by)
      /\ UNCHANGED <<stripe, paddle, webhooks, checkouts, signups, payments, subscriptions, unknown, lost>>
  BY DEF Grant, Idle
<1>2. TabOK' /\ tab'[b] = Idle /\ \A d \in Tab : d # b => tab'[d] = tab[d]
  BY <1>1, TabMoves DEF BillingInv
<1>3. \A d \in Tab : tab'[d] = tab[d] \/ tab'[d].op \notin {"session", "subscribe", "signup", "grant"}
  BY <1>1, <1>2
<1>4. Forward
  BY <1>1, ForwardSame
<1>5. /\ tab[b].payer \in Payer /\ tab[b].course \in Course
      /\ tab[b].by \in {"free", "subscription"} /\ Funded(tab[b].payer, tab[b].course, tab[b].by)
  BY <1>1 DEF BillingInv, GrantsOK, TabGrant
<1>6. GrantsOK' /\ AnnouncedOK'
  BY <1>1, <1>3, <1>4, <1>5, EnrollStep DEF BillingInv
<1>7. StripeOK' /\ PaddleOK'
  BY <1>1, <1>3, StripeFrame, PaddleFrame DEF BillingInv
<1>8. RowsOK'
  BY <1>1, <1>4, RowsFrame DEF BillingInv
<1> QED
  BY <1>2, <1>6, <1>7, <1>8 DEF BillingInv

-----------------------------------------------------------------------------
(* The steps of the providers.                                             *)
LEMMA PayStripeStep ==
  ASSUME BillingInv, NEW s \in Session, PayStripe(s)
  PROVE  BillingInv'
<1> DEFINE w == [type |-> "session", session |-> s]
<1>1. /\ stripe[s].state = "offered" /\ stripe' = [stripe EXCEPT ![s].state = "paid"]
      /\ webhooks' = webhooks \cup {w} /\ w.type = "session" /\ w.session = s
      /\ UNCHANGED <<paddle, tab, checkouts, signups, Unsettled>>
  BY DEF PayStripe
<1> HIDE DEF w
<1>2. stripe \in [Session -> Sold]
  BY DEF BillingInv, StripeOK
<1>3. /\ stripe' \in [Session -> Sold] /\ stripe'[s].state = "paid" /\ stripe'[s].payer = stripe[s].payer
      /\ \A x \in Session : x # s => stripe'[x] = stripe[x]
  BY <1>1, <1>2 DEF Sold
<1>4. Forward
  BY <1>1, <1>3 DEF Forward
<1>5. StripeOK'
  <2>1. \A x \in Session : stripe'[x].state \in {"offered", "paid"} => checkouts[x] # "none"
    BY <1>1, <1>3 DEF BillingInv, StripeOK
  <2>2. ASSUME NEW d \in Tab PROVE TabStripe(d)'
    <3>1. TabStripe(d)
      BY DEF BillingInv, StripeOK
    <3> QED
      BY <1>1, <1>3, <3>1 DEF TabStripe
  <2>3. \A m \in webhooks' : m.type = "session" => m.session \in Session /\ stripe'[m.session].state = "paid"
    BY <1>1, <1>3 DEF BillingInv, StripeOK
  <2>4. \A x \in Session : stripe'[x].state # "none" => stripe'[x].payer \in Payer
    BY <1>1, <1>3 DEF BillingInv, StripeOK
  <2> QED
    BY <1>1, <1>3, <2>1, <2>2, <2>3, <2>4 DEF BillingInv, StripeOK
<1>6. /\ \A d \in Tab : tab'[d] = tab[d]
      /\ \A m \in webhooks' : m \in webhooks \/ m.type = "session"
  BY <1>1
<1>7. PaddleOK'
  BY <1>1, <1>6, PaddleFrame DEF BillingInv
<1>8. TabOK' /\ RowsOK'
  BY <1>1, <1>4, RowsFrame DEF BillingInv, TabOK, Unsettled
<1>9. GrantsOK' /\ AnnouncedOK'
  BY <1>1, <1>4, <1>6, GrantsFrame, AnnouncedFrame DEF BillingInv, Unsettled
<1> QED
  BY <1>5, <1>7, <1>8, <1>9 DEF BillingInv

(* A transaction that moves on, to completed, with webhooks about it.      *)
LEMMA TransactionMoves ==
  ASSUME BillingInv, NEW t \in Txn, NEW new \in Used,
         paddle[t].state \in {"offered", "completed"},
         new.state = "completed", new.payer = paddle[t].payer,
         paddle' = [paddle EXCEPT ![t] = new],
         \A m \in webhooks' : m \in webhooks \/ (m.type \in {"transaction", "subscription"} /\ m.txn = t),
         UNCHANGED <<stripe, tab, checkouts, signups, Unsettled>>
  PROVE  BillingInv'
<1>1. paddle \in [Txn -> Used]
  BY DEF BillingInv, PaddleOK
<1>2. /\ paddle' \in [Txn -> Used] /\ paddle'[t] = new
      /\ \A u \in Txn : u # t => paddle'[u] = paddle[u]
  BY <1>1
<1>3. Forward
  BY <1>2 DEF Forward
<1>4. PaddleOK'
  <2>1. \A u \in Txn : paddle'[u].state # "none" => paddle'[u].payer \in Payer
    BY <1>2 DEF BillingInv, PaddleOK
  <2>2. \A u \in Txn : paddle'[u].state \in {"offered", "completed"} => \E i \in DOMAIN signups : signups[i] = u
    BY <1>2 DEF BillingInv, PaddleOK
  <2>3. ASSUME NEW d \in Tab PROVE TabPaddle(d)'
    <3>1. TabPaddle(d)
      BY DEF BillingInv, PaddleOK
    <3> QED
      BY <1>2, <3>1 DEF TabPaddle
  <2>4. \A m \in webhooks' : m.type \in {"transaction", "subscription"} => Completed(m.txn)'
    BY <1>2 DEF BillingInv, PaddleOK, Completed
  <2> QED
    BY <1>2, <2>1, <2>2, <2>3, <2>4 DEF BillingInv, PaddleOK
<1>5. \A d \in Tab : tab'[d] = tab[d]
  OBVIOUS
<1>6. StripeOK'
  <2>1. \A m \in webhooks' : m \in webhooks \/ m.type # "session"
    OBVIOUS
  <2> QED
    BY <1>5, <2>1, StripeFrame DEF BillingInv
<1>7. TabOK' /\ RowsOK'
  BY <1>3, RowsFrame DEF BillingInv, TabOK, Unsettled
<1>8. GrantsOK' /\ AnnouncedOK'
  BY <1>3, <1>5, GrantsFrame, AnnouncedFrame DEF BillingInv, Unsettled
<1> QED
  BY <1>4, <1>6, <1>7, <1>8 DEF BillingInv

(* A subscription begins with its transaction.                             *)
LEMMA SubscribeStep ==
  ASSUME BillingInv, NEW t \in Txn, NEW custom, Subscribe(t, custom)
  PROVE  BillingInv'
<1> DEFINE new == [paddle[t] EXCEPT !.state = "completed", !.news = <<"active">>]
           first == [type |-> "transaction", txn |-> t, custom |-> custom]
           second == [type |-> "subscription", txn |-> t, version |-> 1, status |-> "active", custom |-> custom]
<1>1. /\ paddle[t].state = "offered" /\ paddle' = [paddle EXCEPT ![t] = new]
      /\ webhooks' = webhooks \cup {first, second}
      /\ UNCHANGED <<stripe, tab, checkouts, signups, Unsettled>>
  BY DEF Subscribe
<1>2. first.type = "transaction" /\ first.txn = t /\ second.type = "subscription" /\ second.txn = t
  OBVIOUS
<1>3. new \in Used /\ new.state = "completed" /\ new.payer = paddle[t].payer
  <2>1. paddle[t] \in Used
    BY DEF BillingInv, PaddleOK
  <2>2. <<"active">> \in Seq({"active", "past_due", "canceled"})
    OBVIOUS
  <2> QED
    BY <2>1, <2>2 DEF Used
<1> HIDE DEF new, first, second
<1>4. \A m \in webhooks' : m \in webhooks \/ (m.type \in {"transaction", "subscription"} /\ m.txn = t)
  BY <1>1, <1>2
<1> QED
  BY <1>1, <1>3, <1>4, TransactionMoves

(* News of a subscription carry the custom data of its transaction.        *)
LEMMA SubscriptionNewsStep ==
  ASSUME BillingInv, NEW t \in Txn, NEW status \in {"active", "past_due", "canceled"}, NEW custom,
         SubscriptionNews(t, status, custom)
  PROVE  BillingInv'
<1> DEFINE new == [paddle[t] EXCEPT !.news = Append(paddle[t].news, status)]
           w == [type |-> "subscription", txn |-> t, version |-> Len(paddle[t].news) + 1,
                 status |-> status, custom |-> custom]
<1>1. /\ paddle[t].state = "completed" /\ paddle' = [paddle EXCEPT ![t] = new]
      /\ webhooks' = webhooks \cup {w}
      /\ UNCHANGED <<stripe, tab, checkouts, signups, Unsettled>>
  BY DEF SubscriptionNews
<1>2. w.type = "subscription" /\ w.txn = t
  OBVIOUS
<1>3. new \in Used /\ new.state = "completed" /\ new.payer = paddle[t].payer
  <2>1. paddle[t] \in Used
    BY DEF BillingInv, PaddleOK
  <2>2. Append(paddle[t].news, status) \in Seq({"active", "past_due", "canceled"})
    BY <2>1 DEF Used
  <2> QED
    BY <1>1, <2>1, <2>2 DEF Used
<1> HIDE DEF new, w
<1>4. \A m \in webhooks' : m \in webhooks \/ (m.type \in {"transaction", "subscription"} /\ m.txn = t)
  BY <1>1, <1>2
<1> QED
  BY <1>1, <1>3, <1>4, TransactionMoves

-----------------------------------------------------------------------------
(* The webhooks.                                                           *)
LEMMA AcknowledgeFacts == ASSUME NEW m, Acknowledge(m) PROVE webhooks' \subseteq webhooks
BY DEF Acknowledge

(* A Stripe webhook grants what its session paid for.                      *)
LEMMA StripeWebhookStep ==
  ASSUME BillingInv, NEW m \in webhooks, StripeWebhook(m)
  PROVE  BillingInv'
<1> DEFINE s == m.session
<1>1. /\ m.type = "session" /\ webhooks' \subseteq webhooks
      /\ UNCHANGED <<stripe, paddle, tab, signups, payments, subscriptions>>
  BY AcknowledgeFacts DEF StripeWebhook
<1>2. s \in Session /\ stripe[s].state = "paid" /\ checkouts[s] # "none"
  BY <1>1 DEF BillingInv, StripeOK
<1>3. /\ checkouts' = [checkouts EXCEPT ![s] = "completed"] /\ UNCHANGED unknown
      /\ EnrollOnce(stripe[s].payer, stripe[s].course, s)
  BY <1>2 DEF StripeWebhook
<1> HIDE DEF s
<1>4. Forward
  BY <1>1, ForwardSame
<1>5. StripeOK'
  <2>1. /\ checkouts' = [x \in Session |-> checkouts'[x]]
        /\ \A x \in Session : stripe[x].state \in {"offered", "paid"} => checkouts'[x] # "none"
    BY <1>3 DEF BillingInv, StripeOK
  <2>2. \A d \in Tab : TabStripe(d)'
    BY <1>1 DEF BillingInv, StripeOK, TabStripe
  <2>3. \A n \in webhooks' : n.type = "session" => n.session \in Session /\ stripe[n.session].state = "paid"
    BY <1>1 DEF BillingInv, StripeOK
  <2> QED
    BY <1>1, <2>1, <2>2, <2>3 DEF BillingInv, StripeOK
<1>6. PaddleOK'
  <2>1. \A d \in Tab : tab'[d] = tab[d]
    BY <1>1
  <2> QED
    BY <1>1, <2>1, PaddleFrame DEF BillingInv
<1>7. TabOK' /\ RowsOK'
  BY <1>1, <1>4, RowsFrame DEF BillingInv, TabOK
<1>8. GrantsOK' /\ AnnouncedOK'
  <2> DEFINE p == stripe[s].payer
             c == stripe[s].course
  <2>1. stripe[s] \in Sold
    BY <1>2 DEF BillingInv, StripeOK
  <2>2. stripe[s] = [state |-> "paid", payer |-> p, course |-> c] /\ c \in Course
    BY <1>2, <2>1 DEF Sold
  <2>3. Funded(p, c, s)
    BY <1>2, <2>2, BillingAssumption DEF Funded
  <2>4. p \in Payer
    BY <1>2 DEF BillingInv, StripeOK
  <2> HIDE DEF p, c
  <2>5. EnrollOnce(p, c, s) /\ \A d \in Tab : tab'[d] = tab[d]
    BY <1>1, <1>3 DEF p, c
  <2> QED
    BY <1>2, <1>3, <1>4, <2>2, <2>3, <2>4, <2>5, EnrollStep DEF BillingInv
<1> QED
  BY <1>5, <1>6, <1>7, <1>8 DEF BillingInv

(* A Paddle webhook records what its transaction or subscription says.     *)
LEMMA PaddleWebhookStep ==
  ASSUME BillingInv, NEW m \in webhooks, PaddleTransaction(m) \/ PaddleSubscription(m)
  PROVE  BillingInv'
<1> DEFINE t == m.txn
           p == paddle[t].payer
<1>1. /\ m.type \in {"transaction", "subscription"} /\ webhooks' \subseteq webhooks
      /\ UNCHANGED <<stripe, paddle, tab, checkouts, signups, enrollments, activated, budgets>>
  BY AcknowledgeFacts DEF PaddleTransaction, PaddleSubscription
<1>2. t \in Txn /\ paddle[t].state = "completed" /\ p \in Payer /\ Nobody # p
  BY <1>1, BillingAssumption DEF BillingInv, PaddleOK, Completed
<1>3. PICK i \in DOMAIN signups : signups[i] = t
  BY <1>2 DEF BillingInv, PaddleOK
<1>4. StudentOfTransaction(m) = p /\ StudentOfSubscription(m) = p
  BY <1>3 DEF StudentOfTransaction, StudentOfSubscription, SignupsOf
<1>5. UNCHANGED unknown /\ RowsOK'
  <2>1. CASE PaddleTransaction(m)
    <3>1. UNCHANGED <<unknown, subscriptions>> /\ payments' = [payments EXCEPT ![t] = p]
      BY <1>2, <1>4, <2>1 DEF PaddleTransaction
    <3> HIDE DEF t
    <3> QED
      BY <1>1, <1>2, <3>1 DEF BillingInv, RowsOK, Completed
  <2>2. CASE PaddleSubscription(m)
    <3> DEFINE row == [status |-> m.status, payer |-> p]
    <3>1. UNCHANGED <<unknown, payments>> /\ subscriptions' = [subscriptions EXCEPT ![t] = row]
      BY <1>2, <1>4, <2>2 DEF PaddleSubscription
    <3>2. row.payer = p
      OBVIOUS
    <3> HIDE DEF t, row
    <3> QED
      BY <1>1, <1>2, <3>1, <3>2 DEF BillingInv, RowsOK, Completed
  <2> QED
    BY <2>1, <2>2
<1>6. Forward /\ (\A d \in Tab : tab'[d] = tab[d]) /\ \A n \in webhooks' : n \in webhooks
  BY <1>1, ForwardSame
<1>7. StripeOK' /\ PaddleOK'
  BY <1>1, <1>6, StripeFrame, PaddleFrame DEF BillingInv
<1>8. TabOK' /\ GrantsOK' /\ AnnouncedOK'
  BY <1>1, <1>5, <1>6, GrantsFrame, AnnouncedFrame DEF BillingInv, TabOK
<1> QED
  BY <1>5, <1>7, <1>8 DEF BillingInv

(* A step of none of the variables keeps the invariant.                    *)
LEMMA StutterBilling == ASSUME BillingInv, UNCHANGED billingVars PROVE BillingInv'
<1>1. Forward /\ (\A d \in Tab : tab'[d] = tab[d]) /\ \A n \in webhooks' : n \in webhooks
  BY ForwardSame DEF billingVars
<1>2. StripeOK' /\ PaddleOK'
  BY <1>1, StripeFrame, PaddleFrame DEF BillingInv, billingVars
<1>3. TabOK' /\ RowsOK' /\ GrantsOK' /\ AnnouncedOK'
  BY <1>1, RowsFrame, GrantsFrame, AnnouncedFrame DEF BillingInv, TabOK, billingVars
<1> QED
  BY <1>2, <1>3 DEF BillingInv

-----------------------------------------------------------------------------
(* The inductive invariant of the billing service: what is paid stays what  *)
(* it was paid for, an address is out only with its row or signup, and      *)
(* enrollments and events are one to one.                                  *)
THEOREM BillingInvariant == BillingSpec => []BillingInv
<1>1. BillingInit => BillingInv
  BY InitBilling
<1>2. BillingInv /\ [BillingNext]_billingVars => BillingInv'
  <2> SUFFICES ASSUME BillingInv, [BillingNext]_billingVars PROVE BillingInv'
    OBVIOUS
  <2>1. ASSUME NEW b \in Tab, NEW p \in Payer, ReadSignup(b, p) PROVE BillingInv'
    BY <2>1, TabStep
  <2>2. ASSUME NEW b \in Tab, NEW p \in Payer, NEW c \in Course, CreateStripeSession(b, p, c) PROVE BillingInv'
    BY <2>2, CreateSessionStep
  <2>3. ASSUME NEW b \in Tab, NEW p \in Payer, NEW c \in Course, EnrollCheck(b, p, c) PROVE BillingInv'
    BY <2>3, TabStep
  <2>4. ASSUME NEW b \in Tab, StoreSession(b) \/ Grant(b) \/ StoreSignup(b) PROVE BillingInv'
    BY <2>4, StoreSessionStep, GrantStep, StoreSignupStep
  <2>5. ASSUME NEW b \in Tab, ReuseTransaction(b) \/ NewTransaction(b) \/ PaddleFails(b) PROVE BillingInv'
    BY <2>5, TabStep, NewTransactionStep
  <2>6. ASSUME NEW s \in Session, PayStripe(s) PROVE BillingInv'
    BY <2>6, PayStripeStep
  <2>7. ASSUME NEW t \in Txn, NEW custom \in BOOLEAN, Subscribe(t, custom) PROVE BillingInv'
    BY <2>7, SubscribeStep
  <2>8. ASSUME NEW t \in Txn, NEW custom \in BOOLEAN, NEW status \in {"active", "past_due", "canceled"},
               SubscriptionNews(t, status, custom) PROVE BillingInv'
    BY <2>8, SubscriptionNewsStep
  <2>9. CASE Deliver
    BY <2>9, StripeWebhookStep, PaddleWebhookStep DEF Deliver
  <2>10. CASE UNCHANGED billingVars
    BY <2>10, StutterBilling
  <2> QED
    BY <2>1, <2>2, <2>3, <2>4, <2>5, <2>6, <2>7, <2>8, <2>9, <2>10 DEF BillingNext
<1> QED
  BY <1>1, <1>2, PTL DEF BillingSpec

(* What the success page may say comes from a row of this very student.    *)
LEMMA StatusIsTheStudents ==
  ASSUME BillingInv, NEW t \in Txn, SubscriptionStatus(t) \cap Active # {}
  PROVE  HasSubscription(paddle[t].payer)
<1> DEFINE own == {u \in Txn : subscriptions[u] # NoRow /\ subscriptions[u].payer = paddle[t].payer}
<1>1. PICK status \in Active : status \in SubscriptionStatus(t)
  OBVIOUS
<1>2. status # "pending"
  BY DEF Active
<1>3. \E u \in own : subscriptions[u].status = status
  <2>1. CASE payments[t] # "none" /\ subscriptions[t] # NoRow
    <3>1. subscriptions[t].status = status
      BY <1>1, <2>1 DEF SubscriptionStatus
    <3>2. subscriptions[t].payer = paddle[t].payer
      BY <2>1 DEF BillingInv, RowsOK
    <3> QED
      BY <2>1, <3>1, <3>2
  <2>2. CASE payments[t] # "none" /\ subscriptions[t] = NoRow
    BY <1>1, <1>2, <2>2 DEF SubscriptionStatus
  <2>3. CASE payments[t] = "none" /\ own = {}
    BY <1>1, <1>2, <2>3 DEF SubscriptionStatus
  <2>4. CASE payments[t] = "none" /\ own # {}
    BY <1>1, <2>4 DEF SubscriptionStatus
  <2> QED
    BY <2>1, <2>2, <2>3, <2>4
<1> QED
  BY <1>3 DEF HasSubscription

(* EnrollmentSound, of enroll/server.py's checkouts, webhooks and enrollments *)
(* (EnrollOnce is its one enrolling statement): every enrollment is paid     *)
(* for, single, announced exactly once and budgeted, no payment comes back    *)
(* unknown, and none is booked to somebody else.                             *)
THEOREM EnrollmentsAreSound == BillingSpec => []EnrollmentSound
<1>1. ASSUME BillingInv PROVE EnrollmentSound
  <2>1. ASSUME NEW e \in enrollments
        PROVE  Cardinality({i \in DOMAIN activated : activated[i] = <<e.payer, e.course>>}) = 1
    <3>1. PICK i \in DOMAIN activated : activated[i] = <<e.payer, e.course>>
      BY <1>1 DEF BillingInv, AnnouncedOK
    <3>2. {j \in DOMAIN activated : activated[j] = <<e.payer, e.course>>} = {i}
      BY <1>1, <3>1 DEF BillingInv, AnnouncedOK
    <3> QED
      BY <3>2, FS_Singleton
  <2>2. \A e \in enrollments : Funded(e.payer, e.course, e.by) /\ e.payer \in budgets
    BY <1>1 DEF BillingInv, GrantsOK
  <2>3. (\A e, f \in enrollments : f.payer = e.payer /\ f.course = e.course => f = e) /\ unknown = 0
    BY <1>1 DEF BillingInv, GrantsOK
  <2>4. ASSUME NEW t \in Txn
        PROVE  /\ payments[t] \in {"none", paddle[t].payer}
               /\ subscriptions[t] # NoRow => subscriptions[t].payer = paddle[t].payer
               /\ SubscriptionStatus(t) \cap Active # {} => HasSubscription(paddle[t].payer)
    <3>1. /\ payments[t] \in {"none", paddle[t].payer}
          /\ subscriptions[t] # NoRow => subscriptions[t].payer = paddle[t].payer
      BY <1>1 DEF BillingInv, RowsOK
    <3> QED
      BY <1>1, <3>1, StatusIsTheStudents
  <2> QED
    BY <2>1, <2>2, <2>3, <2>4 DEF EnrollmentSound, Funded
<1> QED
  BY <1>1, BillingInvariant, PTL

-----------------------------------------------------------------------------
Login == [person : Person, live : BOOLEAN, after : Nat]
Token == [person : Person, used : BOOLEAN]

(* The request of a thread, for a person once it is under way.             *)
DeskOK ==
  /\ desk = [d \in Desk |-> desk[d]]
  /\ \A d \in Desk : /\ desk[d].op # "free" => desk[d].person \in Person
                     /\ desk[d].op = "bridge" => desk[d].address \in Person

(* Between two transactions: who is to be signed in has a user, and with a  *)
(* session to come also the students row, for neither is ever taken back.  *)
Backed(d) ==
  LET u == desk[d].person
  IN /\ desk[d].op = "verify" /\ desk[d].password >= 0 => users[u] # NoUser
     /\ desk[d].op \in {"bridge", "session"} => users[u] # NoUser
     /\ desk[d].op = "session" => HasRow(u)

SigninBacked == \A d \in Desk : Backed(d)

(* An identity is linked to somebody who has a user, too.                  *)
IdentityBacked == \A x \in Identity : identities[x] # "none" => users[identities[x]] # NoUser

IsUsed(i) == i \in DOMAIN tokens /\ tokens[i].used

(* Every token that got as far as a reset is used, so that no request can   *)
(* consume it again; and the password of one is written by one thread.     *)
TokenSpent ==
  /\ \A n \in DOMAIN consumed : IsUsed(consumed[n])
  /\ \A n \in DOMAIN written : IsUsed(written[n])
  /\ \A i \in answered : IsUsed(i)
  /\ \A d \in Desk : desk[d].op \in {"write", "revoke"} =>
       IsUsed(desk[d].token) /\ tokens[desk[d].token].person = desk[d].person
  /\ \A d \in Desk : desk[d].op = "write" =>
       /\ \A n \in DOMAIN written : written[n] # desk[d].token
       /\ \A e \in Desk : desk[e].op = "write" /\ desk[e].token = desk[d].token => e = d

AuthInv ==
  AuthTypeOK /\ DeskOK /\ SigninBacked /\ IdentityBacked /\ SessionBacked /\ TokenSpent /\ ResetEndsSessions

-----------------------------------------------------------------------------
(* Sessions are ended and nothing else about them changes.                 *)
LEMMA EndedFacts ==
  ASSUME logins \in Seq(Login), NEW S
  PROVE  /\ Ended(S) \in Seq(Login) /\ DOMAIN Ended(S) = DOMAIN logins
         /\ \A i \in DOMAIN logins :
              /\ Ended(S)[i].person = logins[i].person /\ Ended(S)[i].after = logins[i].after
              /\ Ended(S)[i].live => logins[i].live /\ i \notin S
<1>1. DOMAIN logins = 1 .. Len(logins) /\ Len(logins) \in Nat
      /\ \A i \in DOMAIN logins : logins[i] \in Login
  OBVIOUS
<1>2. \A i \in DOMAIN logins : Ended(S)[i] \in Login
  BY <1>1 DEF Ended, Login
<1>3. Ended(S) \in Seq(Login)
  BY <1>1, <1>2 DEF Ended
<1> QED
  BY <1>1, <1>3 DEF Ended, Login

(* Tokens are used up and nothing else about them changes.                 *)
LEMMA SpentFacts ==
  ASSUME tokens \in Seq(Token), NEW S
  PROVE  /\ Spent(S) \in Seq(Token) /\ DOMAIN Spent(S) = DOMAIN tokens
         /\ \A i \in DOMAIN tokens :
              /\ Spent(S)[i].person = tokens[i].person
              /\ tokens[i].used \/ i \in S => Spent(S)[i].used
<1>1. DOMAIN tokens = 1 .. Len(tokens) /\ Len(tokens) \in Nat
      /\ \A i \in DOMAIN tokens : tokens[i] \in Token
  OBVIOUS
<1>2. \A i \in DOMAIN tokens : Spent(S)[i] \in Token
  BY <1>1 DEF Spent, Token
<1>3. Spent(S) \in Seq(Token)
  BY <1>1, <1>2 DEF Spent
<1> QED
  BY <1>1, <1>3 DEF Spent, Token

(* A token is never taken back, given to another or made good again.       *)
TokensGrow ==
  /\ DOMAIN tokens \subseteq DOMAIN tokens'
  /\ \A j \in DOMAIN tokens :
       tokens'[j].person = tokens[j].person /\ (tokens[j].used => tokens'[j].used)

UsedNext(i) == i \in DOMAIN tokens' /\ tokens'[i].used

LEMMA UsedStays ==
  ASSUME TokensGrow, NEW i, IsUsed(i)
  PROVE  UsedNext(i) /\ tokens'[i].person = tokens[i].person
BY DEF IsUsed, UsedNext, TokensGrow

LEMMA LoginFacts ==
  ASSUME AuthTypeOK, NEW i \in DOMAIN logins
  PROVE  logins[i].person \in Person
<1>1. logins \in Seq(Login)
  BY DEF AuthTypeOK, Login
<1>2. logins[i] \in Login
  BY <1>1
<1> QED
  BY <1>2 DEF Login

LEMMA LoginsStay ==
  ASSUME AuthInv, UNCHANGED <<users, students>>, DOMAIN logins' = DOMAIN logins,
         \A i \in DOMAIN logins : logins'[i].person = logins[i].person
  PROVE  SessionBacked'
<1>1. ASSUME NEW i \in DOMAIN logins
      PROVE  users'[logins'[i].person] # NoUser /\ \E p \in Person : students'[p] = logins'[i].person
  BY DEF AuthInv, SessionBacked, HasRow
<1>2. \A p, q \in Person : students'[p] = students'[q] /\ students'[p] \in Person => p = q
  BY DEF AuthInv, SessionBacked
<1> QED
  BY <1>1, <1>2 DEF SessionBacked, HasRow

(* The second claim of ResetEndsSessions, about one reset and one session, *)
(* which the steps show for the sessions and the resets after them.        *)
EndsSession(n, i) ==
  /\ consumed[n] \in answered
  /\ logins[i].person = tokens[consumed[n]].person
  /\ logins[i].after < n
  => ~logins[i].live

LEMMA InitAuth == ASSUME AuthInit PROVE AuthInv
<1>1. AuthTypeOK
  BY DEF AuthInit, AuthTypeOK, NoUser
<1>2. SessionBacked
  BY AuthAssumption DEF AuthInit, SessionBacked
<1>3. IdentityBacked
  BY DEF AuthInit, IdentityBacked
<1>4. DeskOK /\ SigninBacked
  BY DEF AuthInit, DeskOK, SigninBacked, Backed, Free
<1>5. TokenSpent /\ ResetEndsSessions
  BY DEF AuthInit, TokenSpent, ResetEndsSessions, IsUsed, Free
<1> QED
  BY <1>1, <1>2, <1>3, <1>4, <1>5 DEF AuthInv

-----------------------------------------------------------------------------
LEMMA GotoFacts ==
  ASSUME DeskOK, NEW d \in Desk, NEW request, Goto(d, request)
  PROVE  /\ desk'[d] = request /\ \A e \in Desk : e # d => desk'[e] = desk[e]
         /\ /\ request.op = "free" \/ request.person \in Person
            /\ request.op = "bridge" => request.address \in Person
            => DeskOK'
BY DEF DeskOK, Goto

(* Students rows are added and linked, never taken from their user.        *)
RowsGrow ==
  /\ students' \in [Person -> {"none", "unlinked", "other"} \cup Person]
  /\ \A u \in Person : HasRow(u) => HasRow(u)'
  /\ \A p, q \in Person : students'[p] = students'[q] /\ students'[p] \in Person => p = q

LEMMA RowsStay == ASSUME AuthInv, students' = students PROVE RowsGrow
BY DEF AuthInv, AuthTypeOK, SessionBacked, RowsGrow, HasRow

(* A thread that goes on without a token in hand, while users and the       *)
(* students rows they are linked to stay, owes its own request.            *)
LEMMA PlainStep ==
  ASSUME AuthInv, NEW d \in Desk, NEW request, Goto(d, request), UNCHANGED <<logins, ResetRows>>,
         request.op \notin {"write", "revoke"},
         request.op = "free" \/ request.person \in Person,
         request.op = "bridge" => request.address \in Person,
         request.op = "verify" /\ request.password >= 0 => users'[request.person] # NoUser,
         request.op \in {"bridge", "session"} => users'[request.person] # NoUser,
         request.op = "session" => \E p \in Person : students'[p] = request.person,
         users' \in [Person -> {NoUser, OauthOnly} \cup Nat],
         identities' \in [Identity -> {"none"} \cup Person], IdentityBacked', RowsGrow,
         \A p \in Person : users[p] # NoUser => users'[p] # NoUser
  PROVE  AuthInv'
<1>1. desk'[d] = request /\ DeskOK' /\ \A e \in Desk : e # d => desk'[e] = desk[e]
  BY GotoFacts DEF AuthInv
<1>2. AuthTypeOK'
  BY DEF AuthInv, AuthTypeOK, ResetRows, RowsGrow
<1>3. ASSUME NEW e \in Desk PROVE Backed(e)'
  <2>1. CASE e = d
    BY <1>1, <2>1 DEF Backed, HasRow
  <2>2. CASE e # d
    <3>1. Backed(e) /\ desk'[e] = desk[e] /\ (desk[e].op # "free" => desk[e].person \in Person)
      BY <1>1, <2>2 DEF AuthInv, DeskOK, SigninBacked
    <3> QED
      BY <3>1 DEF Backed, RowsGrow
  <2> QED
    BY <2>1, <2>2
<1>4. SessionBacked'
  BY LoginFacts DEF AuthInv, SessionBacked, RowsGrow
<1>5. \A e \in Desk : desk'[e].op \in {"write", "revoke"} => desk'[e] = desk[e]
  BY <1>1
<1>6. TokenSpent'
  BY <1>5 DEF AuthInv, TokenSpent, IsUsed, ResetRows
<1>7. ResetEndsSessions'
  BY DEF AuthInv, ResetEndsSessions, ResetRows
<1> QED
  BY <1>1, <1>2, <1>3, <1>4, <1>6, <1>7 DEF AuthInv, SigninBacked

LEMMA CheckStep ==
  ASSUME AuthInv, NEW d \in Desk,
         \/ \E p \in Person : SignupCheck(d, p) \/ LoginCheck(d, p) \/ RequestReset(d, p)
         \/ RequestFails(d)
  PROVE  AuthInv'
<1>1. ASSUME NEW p \in Person, NEW request, Goto(d, request),
             UNCHANGED <<users, identities, students, logins, ResetRows>>,
             request.op \in {"free", "insert", "verify", "token"}, request.op # "free" => request.person = p,
             request.op = "verify" => request.password = users[p]
      PROVE  AuthInv'
  <2>1. /\ users' \in [Person -> {NoUser, OauthOnly} \cup Nat]
        /\ identities' \in [Identity -> {"none"} \cup Person] /\ IdentityBacked'
    BY <1>1 DEF AuthInv, AuthTypeOK, IdentityBacked
  <2>2. request.op = "verify" /\ request.password >= 0 => users'[request.person] # NoUser
    BY <1>1 DEF NoUser
  <2>3. RowsGrow
    BY <1>1, RowsStay
  <2> QED
    BY <1>1, <2>1, <2>2, <2>3, PlainStep
<1>2. ASSUME NEW p \in Person, SignupCheck(d, p) PROVE AuthInv'
  <2>1. Goto(d, [op |-> "insert", person |-> p])
    BY <1>2 DEF SignupCheck
  <2> QED
    BY <1>1, <1>2, <2>1 DEF SignupCheck, ResetRows
<1>3. ASSUME NEW p \in Person, LoginCheck(d, p) PROVE AuthInv'
  <2>1. PICK recent \in 0 .. failures[p] :
          Goto(d, [op |-> "verify", person |-> p, password |-> users[p], recent |-> recent])
    BY <1>3 DEF LoginCheck
  <2> DEFINE request == [op |-> "verify", person |-> p, password |-> users[p], recent |-> recent]
  <2>2. Goto(d, request) /\ request.op = "verify" /\ request.person = p /\ request.password = users[p]
    BY <2>1
  <2> HIDE DEF request
  <2> QED
    BY <1>1, <1>3, <2>2 DEF LoginCheck, ResetRows
<1>4. ASSUME NEW p \in Person, RequestReset(d, p) PROVE AuthInv'
  <2>1. Goto(d, [op |-> "token", person |-> p, retire |-> Unspent(p)])
    BY <1>4 DEF RequestReset
  <2> QED
    BY <1>1, <1>4, <2>1 DEF RequestReset, ResetRows
<1>5. ASSUME RequestFails(d) PROVE AuthInv'
  <2>1. /\ Goto(d, Free) /\ Free.op = "free" /\ RowsGrow
        /\ UNCHANGED <<users, identities, students, logins, ResetRows>>
    BY <1>5, RowsStay DEF RequestFails, Free, ResetRows
  <2>2. /\ users' \in [Person -> {NoUser, OauthOnly} \cup Nat]
        /\ identities' \in [Identity -> {"none"} \cup Person] /\ IdentityBacked'
    BY <2>1 DEF AuthInv, AuthTypeOK, IdentityBacked
  <2> QED
    BY <2>1, <2>2, PlainStep
<1> QED
  BY <1>2, <1>3, <1>4, <1>5

(* Whoever is sent on to the bridge has a user by then.                    *)
LEMMA SigninStep ==
  ASSUME AuthInv, NEW d \in Desk,
         \/ SignupInsert(d)
         \/ \E x \in Identity, p \in Person : OauthLogin(d, x, p)
         \/ \E right \in BOOLEAN : LoginVerify(d, right)
  PROVE  AuthInv'
<1>1. ASSUME NEW u \in Person, NEW p \in Person,
             NEW request \in {Free, [op |-> "bridge", person |-> u, address |-> p]}, Goto(d, request),
             UNCHANGED <<students, logins, ResetRows>>,
             users' = users \/ \E v \in {OauthOnly} \cup Nat : users' = [users EXCEPT ![p] = v],
             request # Free => users'[u] # NoUser,
             identities' = identities \/ \E x \in Identity : identities' = [identities EXCEPT ![x] = u],
             identities' # identities => users'[u] # NoUser
      PROVE  AuthInv'
  <2>1. \A q \in Person : users[q] # NoUser => users'[q] # NoUser
    BY <1>1 DEF AuthInv, AuthTypeOK, NoUser, OauthOnly
  <2>2. users' \in [Person -> {NoUser, OauthOnly} \cup Nat]
    BY <1>1 DEF AuthInv, AuthTypeOK
  <2>3. /\ request.op \in {"free", "bridge"} /\ (request.op = "bridge" => request # Free)
        /\ request.op # "free" => request.person = u /\ request.address = p
    BY <1>1 DEF Free
  <2>4. RowsGrow
    BY <1>1, RowsStay
  <2>5. identities' \in [Identity -> {"none"} \cup Person] /\ IdentityBacked'
    <3>1. identities \in [Identity -> {"none"} \cup Person] /\ IdentityBacked
      BY DEF AuthInv, AuthTypeOK
    <3>2. CASE identities' = identities
      BY <2>1, <3>1, <3>2 DEF IdentityBacked
    <3>3. CASE identities' # identities
      <4>1. PICK x \in Identity : identities' = [identities EXCEPT ![x] = u]
        BY <1>1, <3>3
      <4>2. /\ identities' \in [Identity -> {"none"} \cup Person] /\ users'[u] # NoUser
            /\ \A y \in Identity : identities'[y] = u \/ identities'[y] = identities[y]
        BY <1>1, <3>1, <3>3, <4>1
      <4>3. ASSUME NEW y \in Identity, identities'[y] # "none" PROVE users'[identities'[y]] # NoUser
        BY <2>1, <3>1, <4>2, <4>3 DEF IdentityBacked
      <4> QED
        BY <4>2, <4>3 DEF IdentityBacked
    <3> QED
      BY <3>2, <3>3
  <2> QED
    BY <1>1, <2>1, <2>2, <2>3, <2>4, <2>5, PlainStep
<1>2. CASE SignupInsert(d)
  <2> DEFINE p == desk[d].person
  <2>1. p \in Person /\ users \in [Person -> {NoUser, OauthOnly} \cup Nat]
    BY <1>2 DEF SignupInsert, AuthInv, DeskOK, AuthTypeOK
  <2>2. CASE users[p] = NoUser
    <3>1. Goto(d, [op |-> "bridge", person |-> p, address |-> p]) /\ users' = [users EXCEPT ![p] = 0]
          /\ UNCHANGED <<identities, students, logins, ResetRows>>
      BY <1>2, <2>2 DEF SignupInsert, Signin
    <3>2. users'[p] # NoUser
      BY <2>1, <3>1 DEF NoUser
    <3> QED
      BY <1>1, <2>1, <3>1, <3>2
  <2>3. CASE users[p] # NoUser
    BY <1>1, <1>2, <2>1, <2>3 DEF SignupInsert
  <2> QED
    BY <2>2, <2>3
<1>3. ASSUME NEW x \in Identity, NEW p \in Person, OauthLogin(d, x, p) PROVE AuthInv'
  <2> DEFINE u == IF identities[x] # "none" THEN identities[x] ELSE p
  <2>1. Goto(d, [op |-> "bridge", person |-> u, address |-> p]) /\ UNCHANGED <<students, logins, ResetRows>>
    BY <1>3 DEF OauthLogin, Signin
  <2>2. /\ users \in [Person -> {NoUser, OauthOnly} \cup Nat]
        /\ identities \in [Identity -> {"none"} \cup Person] /\ u \in Person
    BY DEF AuthInv, AuthTypeOK
  <2>3. /\ users' = [users EXCEPT ![p] = IF identities[x] = "none" /\ users[p] = NoUser
                                           THEN OauthOnly ELSE users[p]]
        /\ identities' = [identities EXCEPT ![x] = u]
    BY <1>3 DEF OauthLogin
  <2>4. users'[u] # NoUser
    BY <2>2, <2>3 DEF AuthInv, IdentityBacked, NoUser, OauthOnly
  <2>5. users' = users \/ \E v \in {OauthOnly} \cup Nat : users' = [users EXCEPT ![p] = v]
    BY <2>2, <2>3
  <2> HIDE DEF u
  <2> QED
    BY <1>1, <2>1, <2>2, <2>3, <2>4, <2>5
<1>4. ASSUME NEW right \in BOOLEAN, LoginVerify(d, right) PROVE AuthInv'
  <2> DEFINE p == desk[d].person
  <2>1. p \in Person /\ (right => users[p] # NoUser)
    BY <1>4 DEF LoginVerify, AuthInv, DeskOK, SigninBacked, Backed, HasRow
  <2> QED
    BY <1>1, <1>4, <2>1 DEF LoginVerify, Signin
<1> QED
  BY <1>2, <1>3, <1>4

LEMMA BridgeStudentStep ==
  ASSUME AuthInv, NEW d \in Desk, BridgeStudent(d)
  PROVE  AuthInv'
<1> DEFINE u       == desk[d].person
           p       == desk[d].address
           session == [op |-> "session", person |-> u]
<1>1. u \in Person /\ p \in Person /\ users[u] # NoUser /\ UNCHANGED <<users, identities, logins, ResetRows>>
  BY DEF BridgeStudent, AuthInv, DeskOK, SigninBacked, Backed, HasRow
<1>2. /\ users' \in [Person -> {NoUser, OauthOnly} \cup Nat]
      /\ students \in [Person -> {"none", "unlinked", "other"} \cup Person]
      /\ identities' \in [Identity -> {"none"} \cup Person] /\ IdentityBacked'
  BY <1>1 DEF AuthInv, AuthTypeOK, IdentityBacked
<1>3. CASE HasRow(u)
  <2>1. Goto(d, session) /\ students' = students
    BY <1>3 DEF BridgeStudent
  <2>2. RowsGrow /\ \E q \in Person : students'[q] = u
    BY <1>3, <2>1, RowsStay DEF HasRow
  <2> QED
    BY <1>1, <1>2, <2>1, <2>2, PlainStep
<1>4. CASE ~HasRow(u) /\ students[p] \in {"none", "unlinked"}
  <2>1. Goto(d, session) /\ students' = [students EXCEPT ![p] = u]
    BY <1>4 DEF BridgeStudent
  <2>2. students' \in [Person -> {"none", "unlinked", "other"} \cup Person] /\ students'[p] = u
        /\ \A q \in Person : q # p => students'[q] = students[q]
    BY <1>1, <1>2, <2>1
  <2>3. \E q \in Person : students'[q] = u
    BY <1>1, <2>2
  <2>4. ASSUME NEW v \in Person, HasRow(v) PROVE HasRow(v)'
    <3>1. PICK q \in Person : students[q] = v
      BY <2>4 DEF HasRow
    <3>2. q # p
      BY <1>4, <3>1, AuthAssumption
    <3> QED
      BY <2>2, <3>1, <3>2 DEF HasRow
  <2>5. ASSUME NEW q \in Person, NEW w \in Person, students'[q] = students'[w], students'[q] \in Person
        PROVE  q = w
    <3>1. q # p => students[q] # u
      BY <1>4 DEF HasRow
    <3>2. w # p => students[w] # u
      BY <1>4 DEF HasRow
    <3> QED
      BY <2>2, <2>5, <3>1, <3>2 DEF AuthInv, SessionBacked
  <2>6. RowsGrow
    BY <2>2, <2>4, <2>5 DEF RowsGrow
  <2> QED
    BY <1>1, <1>2, <2>1, <2>3, <2>6, PlainStep
<1>5. CASE ~HasRow(u) /\ students[p] \notin {"none", "unlinked"}
  <2>1. Goto(d, Free) /\ RowsGrow /\ Free.op = "free"
    BY <1>5, RowsStay DEF BridgeStudent, Free
  <2> QED
    BY <1>1, <1>2, <2>1, PlainStep
<1> QED
  BY <1>3, <1>4, <1>5

(* The other system takes no row that is linked.                           *)
LEMMA BridgeOtherStep ==
  ASSUME AuthInv, NEW p \in Person, BridgeOther(p)
  PROVE  AuthInv'
<1> USE DEF BridgeOther, ResetRows
<1>1. /\ students \in [Person -> {"none", "unlinked", "other"} \cup Person]
      /\ students' = [students EXCEPT ![p] = "other"] /\ students[p] \notin Person
  BY AuthAssumption DEF AuthInv, AuthTypeOK
<1>2. /\ \A q \in Person : q # p => students'[q] = students[q]
      /\ students'[p] = "other" /\ "other" \notin Person
  BY <1>1, AuthAssumption
<1>3. \A v \in Person : HasRow(v) => HasRow(v)'
  BY <1>1, <1>2 DEF HasRow
<1>4. \A q, w \in Person : students'[q] = students'[w] /\ students'[q] \in Person => q = w
  BY <1>2 DEF AuthInv, SessionBacked
<1>5. AuthTypeOK'
  BY <1>1 DEF AuthInv, AuthTypeOK
<1>6. SigninBacked'
  BY <1>3 DEF AuthInv, DeskOK, SigninBacked, Backed, HasRow
<1>7. SessionBacked'
  BY <1>3, <1>4, LoginFacts DEF AuthInv, SessionBacked
<1> QED
  BY <1>5, <1>6, <1>7 DEF AuthInv, DeskOK, IdentityBacked, TokenSpent, IsUsed, ResetEndsSessions

LEMMA SessionStep ==
  ASSUME AuthInv, NEW d \in Desk, CreateSession(d)
  PROVE  AuthInv'
<1> USE DEF CreateSession, Goto, Free, ResetRows
<1> DEFINE new == [person |-> desk[d].person, live |-> TRUE, after |-> Len(consumed)]
<1>1. new \in Login /\ users[new.person] # NoUser /\ HasRow(new.person)
  BY DEF AuthInv, AuthTypeOK, DeskOK, SigninBacked, Backed, HasRow, IdentityBacked, Login
<1>2. logins \in Seq(Login) /\ logins' = Append(logins, new)
  BY DEF AuthInv, AuthTypeOK, Login
<1>3. DeskOK'
  BY DEF AuthInv, DeskOK
<1>4. AuthTypeOK'
  BY <1>1, <1>2, AppendFacts DEF AuthInv, AuthTypeOK, Login
<1>5. SigninBacked'
  BY DEF AuthInv, DeskOK, SigninBacked, Backed, HasRow
<1>6. DOMAIN logins' = 1 .. Len(logins) + 1 /\ DOMAIN logins = 1 .. Len(logins) /\ Len(logins) \in Nat
      /\ (\A i \in DOMAIN logins : logins'[i] = logins[i]) /\ logins'[Len(logins) + 1] = new
  BY <1>1, <1>2, AppendFacts
<1> HIDE DEF new
<1>7. SessionBacked'
  <2> SUFFICES ASSUME NEW i \in DOMAIN logins'
               PROVE  users[logins'[i].person] # NoUser /\ HasRow(logins'[i].person)
    BY DEF SessionBacked, AuthInv, HasRow
  <2>1. i \in DOMAIN logins \/ i = Len(logins) + 1
    BY <1>6
  <2> QED
    BY <1>1, <1>6, <2>1 DEF AuthInv, SessionBacked
<1>8. TokenSpent' /\ IdentityBacked'
  BY DEF AuthInv, DeskOK, TokenSpent, IsUsed, IdentityBacked
<1>9. ResetEndsSessions'
  <2>1. ASSUME NEW n \in DOMAIN consumed, NEW i \in DOMAIN logins', consumed[n] \in answered,
               logins'[i].person = tokens[consumed[n]].person, logins'[i].after < n
        PROVE  ~logins'[i].live
    <3>1. n <= Len(consumed) /\ n \in Int /\ Len(consumed) \in Int
      BY DEF AuthInv, AuthTypeOK
    <3>2. i # Len(logins) + 1
      BY <1>6, <2>1, <3>1 DEF new
    <3> QED
      BY <1>6, <2>1, <3>2 DEF AuthInv, ResetEndsSessions
  <2> QED
    BY <2>1 DEF AuthInv, ResetEndsSessions
<1> QED
  BY <1>3, <1>4, <1>5, <1>7, <1>8, <1>9 DEF AuthInv

(* Sessions end: those that stay alive were alive.                         *)
LEMMA RevokeStep ==
  ASSUME AuthInv, NEW i \in DOMAIN logins, RevokeSession(i)
  PROVE  AuthInv'
<1> USE DEF RevokeSession, ResetRows
<1>1. logins \in Seq(Login) /\ logins' = Ended({i})
  BY DEF AuthInv, AuthTypeOK, Login
<1>2. logins' \in Seq(Login) /\ DOMAIN logins' = DOMAIN logins
      /\ \A j \in DOMAIN logins : /\ logins'[j].person = logins[j].person /\ logins'[j].after = logins[j].after
                                  /\ logins'[j].live => logins[j].live
  BY <1>1, EndedFacts
<1>3. AuthTypeOK'
  BY <1>2 DEF AuthInv, AuthTypeOK, Login
<1>4. SessionBacked'
  BY <1>2, LoginsStay
<1>5. ResetEndsSessions'
  <2>1. \A n \in DOMAIN consumed, j \in DOMAIN logins : EndsSession(n, j)'
    BY <1>2 DEF AuthInv, ResetEndsSessions, EndsSession
  <2> QED
    BY <1>2, <2>1 DEF AuthInv, ResetEndsSessions, EndsSession
<1> QED
  BY <1>3, <1>4, <1>5 DEF AuthInv, DeskOK, SigninBacked, Backed, HasRow, IdentityBacked, TokenSpent, IsUsed

-----------------------------------------------------------------------------
LEMMA ResetsKept ==
  ASSUME AuthInv, TokensGrow, UNCHANGED <<logins, consumed, written, answered>>
  PROVE  ResetEndsSessions'
<1>1. ASSUME NEW n \in DOMAIN consumed, NEW i \in DOMAIN logins PROVE EndsSession(n, i)'
  <2>1. tokens'[consumed[n]].person = tokens[consumed[n]].person /\ EndsSession(n, i)
    BY UsedStays DEF AuthInv, TokenSpent, ResetEndsSessions, EndsSession
  <2> QED
    BY <2>1 DEF EndsSession
<1> QED
  BY <1>1 DEF AuthInv, ResetEndsSessions, EndsSession

(* The tokens of the past stay used, whatever the threads do meanwhile.    *)
LEMMA SpentKept ==
  ASSUME AuthInv, TokensGrow
  PROVE  /\ \A n \in DOMAIN consumed : UsedNext(consumed[n])
         /\ \A n \in DOMAIN written : UsedNext(written[n])
         /\ \A i \in answered : UsedNext(i)
         /\ \A e \in Desk : desk[e].op \in {"write", "revoke"} =>
              UsedNext(desk[e].token) /\ tokens'[desk[e].token].person = desk[e].person
BY UsedStays DEF AuthInv, TokenSpent

LEMMA StoreTokenStep ==
  ASSUME AuthInv, NEW d \in Desk, StoreToken(d)
  PROVE  AuthInv'
<1> DEFINE new  == [person |-> desk[d].person, used |-> FALSE]
           kept == Spent(desk[d].retire)
<1>1. new \in Token /\ tokens \in Seq(Token) /\ tokens' = Append(kept, new)
  BY DEF AuthInv, AuthTypeOK, DeskOK, Token, StoreToken
<1>2. kept \in Seq(Token) /\ DOMAIN kept = DOMAIN tokens
      /\ \A j \in DOMAIN tokens : kept[j].person = tokens[j].person /\ (tokens[j].used => kept[j].used)
  BY <1>1, SpentFacts
<1> HIDE DEF new, kept
<1>3. DOMAIN kept = 1 .. Len(kept) /\ Len(kept) \in Nat /\ DOMAIN tokens' = 1 .. Len(kept) + 1
      /\ tokens' \in Seq(Token) /\ \A j \in 1 .. Len(kept) : tokens'[j] = kept[j]
  BY <1>1, <1>2, AppendFacts
<1>4. TokensGrow
  BY <1>2, <1>3 DEF TokensGrow
<1>5. UNCHANGED <<users, identities, students, logins, consumed, written, answered>> /\ Goto(d, Free) /\ Free.op = "free"
  BY DEF StoreToken, Free
<1>6. DeskOK' /\ desk'[d] = Free /\ \A e \in Desk : e # d => desk'[e] = desk[e]
  BY <1>5, GotoFacts DEF AuthInv
<1>7. SigninBacked' /\ IdentityBacked' /\ SessionBacked'
  BY <1>5, <1>6 DEF AuthInv, SigninBacked, Backed, HasRow, IdentityBacked, SessionBacked
<1>8. AuthTypeOK'
  BY <1>3, <1>5 DEF AuthInv, AuthTypeOK, Token
<1>9. TokenSpent'
  <2>1. \A e \in Desk : desk'[e].op \in {"write", "revoke"} => desk'[e] = desk[e]
    BY <1>5, <1>6
  <2> QED
    BY <1>4, <1>5, <2>1, SpentKept DEF AuthInv, TokenSpent, IsUsed, UsedNext
<1> QED
  BY <1>4, <1>5, <1>6, <1>7, <1>8, <1>9, ResetsKept DEF AuthInv

LEMMA ExpireStep ==
  ASSUME AuthInv, NEW i \in DOMAIN tokens, ExpireToken(i)
  PROVE  AuthInv'
<1>1. tokens \in Seq(Token) /\ tokens' = Spent({i})
      /\ UNCHANGED <<users, identities, students, logins, consumed, written, answered, desk>>
  BY DEF AuthInv, AuthTypeOK, Token, ExpireToken
<1>2. tokens' \in Seq(Token) /\ TokensGrow
  BY <1>1, SpentFacts DEF TokensGrow
<1>3. DeskOK' /\ SigninBacked' /\ IdentityBacked' /\ SessionBacked'
  BY <1>1 DEF AuthInv, DeskOK, SigninBacked, Backed, HasRow, IdentityBacked, SessionBacked
<1>4. AuthTypeOK'
  BY <1>1, <1>2 DEF AuthInv, AuthTypeOK, Token
<1>5. TokenSpent'
  BY <1>1, <1>2, SpentKept DEF AuthInv, TokenSpent, IsUsed, UsedNext
<1> QED
  BY <1>1, <1>2, <1>3, <1>4, <1>5, ResetsKept DEF AuthInv

(* Only a token that is good is consumed: no reset has had it before.      *)
LEMMA ConsumeStep ==
  ASSUME AuthInv, NEW d \in Desk, NEW i \in DOMAIN tokens, ConsumeToken(d, i)
  PROVE  AuthInv'
<1> DEFINE request == [op |-> "write", person |-> tokens[i].person, token |-> i]
<1>1. /\ tokens \in Seq(Token) /\ tokens' = Spent({i}) /\ ~IsUsed(i)
      /\ consumed \in Seq(Nat) /\ consumed' = Append(consumed, i) /\ Goto(d, request)
      /\ UNCHANGED <<users, identities, students, logins, written, answered>>
  BY DEF AuthInv, AuthTypeOK, Token, ConsumeToken, IsUsed
<1>2. tokens' \in Seq(Token) /\ TokensGrow /\ DOMAIN tokens' = DOMAIN tokens /\ tokens'[i].used
  BY <1>1, SpentFacts DEF TokensGrow
<1>3. UsedNext(i) /\ tokens'[i].person = tokens[i].person
  BY <1>2 DEF UsedNext, TokensGrow
<1>4. tokens[i].person \in Person /\ i \in Nat
  <2>1. tokens[i] \in Token /\ i \in Nat
    BY <1>1
  <2> QED
    BY <2>1 DEF Token
<1>5. /\ consumed' \in Seq(Nat) /\ \A n \in DOMAIN consumed : consumed'[n] = consumed[n]
      /\ \A n \in DOMAIN consumed' : n \in DOMAIN consumed \/ consumed'[n] = i
  <2>1. /\ consumed' \in Seq(Nat) /\ DOMAIN consumed = 1 .. Len(consumed) /\ Len(consumed) \in Nat
        /\ DOMAIN consumed' = 1 .. Len(consumed) + 1 /\ consumed'[Len(consumed) + 1] = i
        /\ \A n \in 1 .. Len(consumed) : consumed'[n] = consumed[n]
    BY <1>1, <1>4, AppendFacts
  <2> QED
    BY <2>1
<1>6. DeskOK' /\ desk'[d] = request /\ \A e \in Desk : e # d => desk'[e] = desk[e]
  BY <1>1, <1>4, GotoFacts DEF AuthInv
<1>7. SigninBacked' /\ IdentityBacked' /\ SessionBacked'
  BY <1>1, <1>6 DEF AuthInv, SigninBacked, Backed, HasRow, IdentityBacked, SessionBacked
<1>8. AuthTypeOK'
  BY <1>1, <1>2, <1>5 DEF AuthInv, AuthTypeOK, Token
<1>9. TokenSpent'
  <2>1. \A n \in DOMAIN consumed' : UsedNext(consumed'[n])
    BY <1>2, <1>3, <1>5, SpentKept
  <2>2. (\A n \in DOMAIN written' : UsedNext(written'[n])) /\ \A j \in answered' : UsedNext(j)
    BY <1>1, <1>2, SpentKept
  <2>3. \A e \in Desk : desk'[e].op \in {"write", "revoke"} =>
          UsedNext(desk'[e].token) /\ tokens'[desk'[e].token].person = desk'[e].person
    BY <1>2, <1>3, <1>6, SpentKept
  <2>4. ASSUME NEW e \in Desk, e # d, desk'[e].op = "write" PROVE desk'[e].token # i
    <3>1. desk[e].op \in {"write", "revoke"} /\ desk'[e].token = desk[e].token
      BY <1>6, <2>4
    <3>2. IsUsed(desk[e].token)
      BY <3>1 DEF AuthInv, TokenSpent
    <3> QED
      BY <1>1, <3>1, <3>2
  <2>5. \A n \in DOMAIN written : written[n] # i
    BY <1>1 DEF AuthInv, TokenSpent
  <2>6. ASSUME NEW e \in Desk, desk'[e].op = "write"
        PROVE  /\ \A n \in DOMAIN written' : written'[n] # desk'[e].token
               /\ \A f \in Desk : desk'[f].op = "write" /\ desk'[f].token = desk'[e].token => f = e
    <3>1. CASE e = d
      <4>1. desk'[e].token = i
        BY <1>6, <3>1
      <4> QED
        BY <1>1, <2>4, <2>5, <3>1, <4>1
    <3>2. CASE e # d
      <4>1. desk'[e] = desk[e] /\ desk[e].op = "write" /\ desk'[e].token # i
        BY <1>6, <2>4, <2>6, <3>2
      <4>2. ASSUME NEW f \in Desk, desk'[f].op = "write", desk'[f].token = desk'[e].token PROVE f = e
        <5>1. f # d /\ desk'[f] = desk[f]
          BY <1>6, <4>1, <4>2
        <5> QED
          BY <4>1, <4>2, <5>1 DEF AuthInv, TokenSpent
      <4> QED
        BY <1>1, <4>1, <4>2 DEF AuthInv, TokenSpent
    <3> QED
      BY <3>1, <3>2
  <2> QED
    BY <1>1, <2>1, <2>2, <2>3, <2>6 DEF TokenSpent, IsUsed, UsedNext
<1>10. ResetEndsSessions'
  <2>1. i \notin answered
    BY <1>1 DEF AuthInv, TokenSpent
  <2>2. ASSUME NEW n \in DOMAIN consumed', NEW j \in DOMAIN logins PROVE EndsSession(n, j)'
    <3>1. CASE consumed'[n] = i
      BY <1>1, <2>1, <3>1 DEF EndsSession
    <3>2. CASE n \in DOMAIN consumed
      <4>1. consumed'[n] = consumed[n] /\ tokens'[consumed[n]].person = tokens[consumed[n]].person
            /\ EndsSession(n, j)
        BY <1>2, <1>5, <3>2, UsedStays DEF AuthInv, TokenSpent, ResetEndsSessions, EndsSession
      <4> QED
        BY <1>1, <4>1 DEF EndsSession
    <3> QED
      BY <1>5, <3>1, <3>2
  <2> QED
    BY <1>1, <2>2 DEF AuthInv, ResetEndsSessions, EndsSession
<1> QED
  BY <1>6, <1>7, <1>8, <1>9, <1>10 DEF AuthInv

LEMMA WriteStep ==
  ASSUME AuthInv, NEW d \in Desk, WritePassword(d)
  PROVE  AuthInv'
<1> DEFINE t       == desk[d].token
           request == [op |-> "revoke", person |-> desk[d].person, token |-> t]
<1>1. IsUsed(t) /\ t \in Nat /\ tokens[t].person = desk[d].person /\ desk[d].person \in Person
      /\ \A n \in DOMAIN written : written[n] # t
  <2>1. desk[d].op = "write"
    BY DEF WritePassword
  <2>2. IsUsed(t) /\ tokens[t].person = desk[d].person /\ desk[d].person \in Person
        /\ \A n \in DOMAIN written : written[n] # t
    BY <2>1 DEF AuthInv, DeskOK, TokenSpent
  <2>3. DOMAIN tokens \subseteq Nat
    BY DEF AuthInv, AuthTypeOK
  <2> QED
    BY <2>2, <2>3 DEF IsUsed
<1>2. /\ desk[d].op = "write" /\ users' = [users EXCEPT ![desk[d].person] = t]
      /\ written \in Seq(Nat) /\ written' = Append(written, t) /\ Goto(d, request)
      /\ UNCHANGED <<identities, students, logins, tokens, consumed, answered>>
  BY DEF AuthInv, AuthTypeOK, WritePassword
<1>3. /\ written' \in Seq(Nat) /\ DOMAIN written' = 1 .. Len(written) + 1 /\ DOMAIN written = 1 .. Len(written)
      /\ Len(written) \in Nat
      /\ (\A n \in DOMAIN written : written'[n] = written[n]) /\ written'[Len(written) + 1] = t
  BY <1>1, <1>2, AppendFacts
<1>4. /\ \A n \in DOMAIN written' : n \in DOMAIN written \/ n = Len(written) + 1
      /\ \A n \in DOMAIN written' : n \in DOMAIN written \/ written'[n] = t
  BY <1>3
<1>5. desk'[d] = request /\ \A e \in Desk : e # d => desk'[e] = desk[e]
  BY <1>2, GotoFacts DEF AuthInv
<1>6. desk'[d].op = "revoke" /\ desk'[d].token = t /\ desk'[d].person = desk[d].person
  BY <1>5
<1>7. DeskOK'
  BY <1>1, <1>2, <1>5, <1>6, GotoFacts DEF AuthInv
<1>8. \A p \in Person : users[p] # NoUser => users'[p] # NoUser
  BY <1>1, <1>2 DEF AuthInv, AuthTypeOK, NoUser
<1>9. AuthTypeOK'
  BY <1>1, <1>2, <1>3 DEF AuthInv, AuthTypeOK
<1>10. SigninBacked'
  <2>1. ASSUME NEW e \in Desk PROVE Backed(e)'
    <3>1. CASE e = d
      BY <1>6, <3>1 DEF Backed
    <3>2. CASE e # d
      <4>1. Backed(e) /\ desk'[e] = desk[e] /\ (desk[e].op # "free" => desk[e].person \in Person)
        BY <1>5, <3>2 DEF AuthInv, DeskOK, SigninBacked
      <4> QED
        BY <1>2, <1>8, <4>1 DEF Backed, HasRow
    <3> QED
      BY <3>1, <3>2
  <2> QED
    BY <2>1 DEF SigninBacked
<1>11. SessionBacked'
  BY <1>2, <1>8, LoginFacts DEF AuthInv, SessionBacked, HasRow
<1>12. TokenSpent'
  <2>1. TokensGrow
    BY <1>2 DEF TokensGrow
  <2>2. UsedNext(t)
    BY <1>1, <2>1, UsedStays
  <2>3. \A n \in DOMAIN written' : UsedNext(written'[n])
    BY <1>3, <1>4, <2>1, <2>2, SpentKept
  <2>4. \A e \in Desk : desk'[e].op \in {"write", "revoke"} =>
          UsedNext(desk'[e].token) /\ tokens'[desk'[e].token].person = desk'[e].person
    BY <1>1, <1>2, <1>5, <1>6, <2>1, <2>2, SpentKept
  <2>5. ASSUME NEW e \in Desk, desk'[e].op = "write"
        PROVE  e # d /\ desk'[e] = desk[e] /\ desk[e].token # t
               /\ \A n \in DOMAIN written : written[n] # desk[e].token
    BY <1>2, <1>5, <1>6, <2>5 DEF AuthInv, TokenSpent
  <2>6. \A e \in Desk : desk'[e].op = "write" =>
          /\ \A n \in DOMAIN written' : written'[n] # desk'[e].token
          /\ \A f \in Desk : desk'[f].op = "write" /\ desk'[f].token = desk'[e].token => f = e
    BY <1>3, <1>4, <2>5 DEF AuthInv, TokenSpent
  <2> QED
    BY <1>2, <2>1, <2>3, <2>4, <2>6, SpentKept DEF TokenSpent, IsUsed, UsedNext
<1>13. ResetEndsSessions'
  <2>1. \A m, n \in DOMAIN written' : written'[m] = written'[n] => m = n
    BY <1>1, <1>3, <1>4 DEF AuthInv, ResetEndsSessions
  <2> QED
    BY <1>2, <2>1 DEF AuthInv, ResetEndsSessions
<1>14. IdentityBacked'
  BY <1>2, <1>8 DEF AuthInv, AuthTypeOK, IdentityBacked
<1> QED
  BY <1>7, <1>9, <1>10, <1>11, <1>12, <1>13, <1>14 DEF AuthInv

(* The answer to a reset: every session of its person ends with it.        *)
LEMMA RevokeAllStep ==
  ASSUME AuthInv, NEW d \in Desk, RevokeAllSessions(d)
  PROVE  AuthInv'
<1> DEFINE t    == desk[d].token
           mine == {i \in DOMAIN logins : logins[i].person = desk[d].person}
<1>1. /\ desk[d].op = "revoke" /\ logins \in Seq(Login) /\ logins' = Ended(mine)
      /\ answered' = answered \cup {t} /\ Goto(d, Free) /\ Free.op = "free"
      /\ UNCHANGED <<users, identities, students, tokens, consumed, written>>
  BY DEF AuthInv, AuthTypeOK, Login, RevokeAllSessions, Free
<1>2. logins' \in Seq(Login) /\ DOMAIN logins' = DOMAIN logins
      /\ \A j \in DOMAIN logins : /\ logins'[j].person = logins[j].person /\ logins'[j].after = logins[j].after
                                  /\ logins'[j].live => logins[j].live /\ j \notin mine
  <2> HIDE DEF mine
  <2> QED
    BY <1>1, EndedFacts
<1>3. IsUsed(t) /\ tokens[t].person = desk[d].person
  BY <1>1 DEF AuthInv, TokenSpent
<1>4. t \in Nat
  <2>1. DOMAIN tokens \subseteq Nat
    BY DEF AuthInv, AuthTypeOK
  <2> QED
    BY <1>3, <2>1 DEF IsUsed
<1>5. AuthTypeOK'
  BY <1>1, <1>2, <1>4 DEF AuthInv, AuthTypeOK, Login
<1>6. DeskOK' /\ desk'[d] = Free /\ \A e \in Desk : e # d => desk'[e] = desk[e]
  BY <1>1, GotoFacts DEF AuthInv
<1>7. SigninBacked' /\ IdentityBacked' /\ SessionBacked'
  <2>1. SigninBacked' /\ IdentityBacked'
    BY <1>1, <1>6 DEF AuthInv, SigninBacked, Backed, HasRow, IdentityBacked
  <2>2. SessionBacked'
    BY <1>1, <1>2, LoginsStay
  <2> QED
    BY <2>1, <2>2
<1>8. TokenSpent'
  <2>1. \A e \in Desk : desk'[e].op \in {"write", "revoke"} => desk'[e] = desk[e]
    BY <1>1, <1>6
  <2>2. TokensGrow
    BY <1>1 DEF TokensGrow
  <2> QED
    BY <1>1, <1>3, <2>1, <2>2, SpentKept, UsedStays DEF AuthInv, TokenSpent, IsUsed, UsedNext
<1>9. ResetEndsSessions'
  <2>1. ASSUME NEW n \in DOMAIN consumed, NEW j \in DOMAIN logins PROVE EndsSession(n, j)'
    <3>1. CASE consumed[n] = t
      BY <1>1, <1>2, <1>3, <3>1 DEF EndsSession
    <3>2. CASE consumed[n] # t
      <4>1. EndsSession(n, j)
        BY DEF AuthInv, ResetEndsSessions, EndsSession
      <4> QED
        BY <1>1, <1>2, <3>2, <4>1 DEF EndsSession
    <3> QED
      BY <3>1, <3>2
  <2> QED
    BY <1>1, <1>2, <2>1 DEF AuthInv, ResetEndsSessions, EndsSession
<1> QED
  BY <1>5, <1>6, <1>7, <1>8, <1>9 DEF AuthInv

LEMMA CrashStep ==
  ASSUME AuthInv, AuthCrash
  PROVE  AuthInv'
BY DEF AuthInv, AuthCrash, Free, ResetRows, AuthTypeOK, DeskOK, SigninBacked, Backed, HasRow, IdentityBacked, SessionBacked, TokenSpent,
       IsUsed, ResetEndsSessions

(* The strengthening of the two claims holds in every reachable state.     *)
THEOREM AuthInvariant == AuthSpec => []AuthInv
<1>1. ASSUME AuthInv, UNCHANGED authVars PROVE AuthInv'
  BY <1>1 DEF AuthInv, authVars, AuthTypeOK, DeskOK, SigninBacked, Backed, HasRow, IdentityBacked, SessionBacked, TokenSpent, IsUsed,
              ResetEndsSessions
<1>2. ASSUME AuthInv, AuthNext PROVE AuthInv'
  BY <1>2, CheckStep, SigninStep, BridgeStudentStep, BridgeOtherStep, SessionStep, RevokeStep, StoreTokenStep, ExpireStep,
     ConsumeStep, WriteStep, RevokeAllStep, CrashStep DEF AuthNext
<1> QED
  BY InitAuth, <1>1, <1>2, PTL DEF AuthSpec

(* The accounts and their rows have the types they are given.              *)
THEOREM AuthTypeCorrect == AuthSpec => []AuthTypeOK
<1>1. AuthInv => AuthTypeOK
  BY DEF AuthInv
<1> QED
  BY <1>1, AuthInvariant, PTL

(* Every session's person has a user and the students row of it, whatever  *)
(* died between signing up, bridging and signing in.                       *)
THEOREM SessionsBacked == AuthSpec => []SessionBacked
<1>1. AuthInv => SessionBacked
  BY DEF AuthInv
<1> QED
  BY <1>1, AuthInvariant, PTL

(* A reset link works once, and a reset that was confirmed has ended every  *)
(* session from before its link was used.                                  *)
THEOREM ResetsEndSessions == AuthSpec => []ResetEndsSessions
<1>1. AuthInv => ResetEndsSessions
  BY DEF AuthInv
<1> QED
  BY <1>1, AuthInvariant, PTL
=============================================================================
