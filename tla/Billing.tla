------------------------------- MODULE Billing -------------------------------
(***************************************************************************)
(* enroll/server.py: checkouts, the webhooks of the two payment providers   *)
(* and the enrollments they lead to.  A provider sends a webhook again       *)
(* until it is acknowledged, and in no order.  A tab is a browser tab with   *)
(* one request in the service, which talks to its provider and to the      *)
(* database in steps of its own.  A Paddle transaction and the subscription *)
(* it starts have one name here; a student is one Paddle customer, and      *)
(* updates to a subscription are numbered by Paddle, not by the code.      *)
(***************************************************************************)
EXTENDS Integers, Sequences, FiniteSets

CONSTANTS
  Payer,              \* students
  Course, FreeCourse, \* units, and the one that needs no payment
  Tab,
  Session, Txn,       \* ids the providers can hand out: bounds the checkouts
  MaxNews,            \* bounds the updates of a subscription
  MaxLost,            \* bounds the acknowledgements that get lost
  Nobody

ASSUME BillingAssumption ==
  /\ FreeCourse \in Course /\ Nobody \notin Payer \cup {"none"} /\ "none" \notin Payer
  /\ Session \cap {"free", "subscription"} = {}
  /\ MaxNews \in Nat \ {0} /\ MaxLost \in Nat

VARIABLES
  stripe,        \* the sessions as Stripe knows them
  paddle,        \* the transactions as Paddle knows them, with the subscription's news
  webhooks,      \* webhooks not yet acknowledged
  tab,           \* the request of each tab
  checkouts,     \* checkout_sessions: status of each row
  signups,       \* subscription_signups, as transactions in their order
  payments,      \* payments: student of each row, Nobody if it has none
  subscriptions, \* subscriptions: rows by their Paddle id
  enrollments,   \* enrollments, each with what it was granted by
  activated,     \* enrollment.activated events
  budgets,       \* students with a budget
  unknown,       \* enroll.unknown_* events
  lost           \* acknowledgements lost so far

billingVars == <<stripe, paddle, webhooks, tab, checkouts, signups, payments,
                 subscriptions, enrollments, activated, budgets, unknown, lost>>

Idle    == [op |-> "idle"]
NoRow   == [status |-> "none"]
Active  == {"active", "trialing"}
Unsold  == [state |-> "none", payer |-> Nobody, course |-> FreeCourse]
Unused  == [state |-> "none", payer |-> Nobody, news |-> <<>>]

BillingInit ==
  /\ stripe = [s \in Session |-> Unsold] /\ paddle = [t \in Txn |-> Unused]
  /\ webhooks = {} /\ tab = [b \in Tab |-> Idle]
  /\ checkouts = [s \in Session |-> "none"] /\ signups = <<>>
  /\ payments = [t \in Txn |-> "none"]
  /\ subscriptions = [t \in Txn |-> NoRow]
  /\ enrollments = {} /\ activated = <<>> /\ budgets = {} /\ unknown = 0 /\ lost = 0

-----------------------------------------------------------------------------
(* Faulty variant: the event is appended whether or not a row was.         *)
EnrollAnnounced(p, c, by) ==
  /\ enrollments' = IF \E e \in enrollments : e.payer = p /\ e.course = c
                      THEN enrollments
                      ELSE enrollments \cup {[payer |-> p, course |-> c, by |-> by]}
  /\ activated' = Append(activated, <<p, c>>)
  /\ budgets' = budgets \cup {p}

(* The one statement that enrolls: the row, its event and the budget, or    *)
(* nothing of it if the student is enrolled already.                       *)
EnrollOnce(p, c, by) ==
  IF \E e \in enrollments : e.payer = p /\ e.course = c
    THEN UNCHANGED <<enrollments, activated, budgets>>
    ELSE /\ enrollments' = enrollments \cup {[payer |-> p, course |-> c, by |-> by]}
         /\ activated' = Append(activated, <<p, c>>)
         /\ budgets' = budgets \cup {p}

Unsettled == <<payments, subscriptions, enrollments, activated, budgets, unknown, lost>>

-----------------------------------------------------------------------------
(* _handle_checkout_session: a session is created at Stripe ...            *)
CreateStripeSession(b, p, c) ==
  /\ tab[b] = Idle
  /\ \E s \in Session :
       /\ stripe[s].state = "none"
       /\ stripe' = [stripe EXCEPT ![s] = [state |-> "open", payer |-> p, course |-> c]]
       /\ tab' = [tab EXCEPT ![b] = [op |-> "session", session |-> s]]
  /\ UNCHANGED <<paddle, webhooks, checkouts, signups, Unsettled>>

(* ... and then stored; only then does the student get its address.  If    *)
(* the insert fails, nobody ever does.                                     *)
StoreSession(b) ==
  /\ tab[b].op = "session"
  /\ \/ /\ checkouts' = [checkouts EXCEPT ![tab[b].session] = "pending"]
        /\ stripe' = [stripe EXCEPT ![tab[b].session].state = "offered"]
     \/ UNCHANGED <<checkouts, stripe>>
  /\ tab' = [tab EXCEPT ![b] = Idle]
  /\ UNCHANGED <<paddle, webhooks, signups, Unsettled>>

(* paddle_subscription_checkout: the last signup of the student is read,    *)
SignupsOf(p) == {i \in DOMAIN signups : paddle[signups[i]].payer = p}
LastSignup(p) ==
  IF SignupsOf(p) = {} THEN Nobody
  ELSE signups[CHOOSE i \in SignupsOf(p) : \A j \in SignupsOf(p) : j <= i]

ReadSignup(b, p) ==
  /\ tab[b] = Idle
  /\ tab' = [tab EXCEPT ![b] = [op |-> "subscribe", payer |-> p, last |-> LastSignup(p)]]
  /\ UNCHANGED <<stripe, paddle, webhooks, checkouts, signups, Unsettled>>

(* and its transaction is used again while it can be paid; a failing call  *)
(* to Paddle counts as a no, or ends the request.                          *)
ReuseTransaction(b) ==
  /\ tab[b].op = "subscribe" /\ tab[b].last \in Txn
  /\ paddle[tab[b].last].state \in {"ready", "offered"}
  /\ tab' = [tab EXCEPT ![b] = [op |-> "signup", txn |-> tab[b].last]]
  /\ UNCHANGED <<stripe, paddle, webhooks, checkouts, signups, Unsettled>>

NewTransaction(b) ==
  /\ tab[b].op = "subscribe"
  /\ \E t \in Txn :
       /\ paddle[t].state = "none"
       /\ paddle' = [paddle EXCEPT ![t] = [@ EXCEPT !.state = "ready", !.payer = tab[b].payer]]
       /\ tab' = [tab EXCEPT ![b] = [op |-> "signup", txn |-> t]]
  /\ UNCHANGED <<stripe, webhooks, checkouts, signups, Unsettled>>

PaddleFails(b) ==
  /\ tab[b].op = "subscribe" /\ tab' = [tab EXCEPT ![b] = Idle]
  /\ UNCHANGED <<stripe, paddle, webhooks, checkouts, signups, Unsettled>>

(* _handle_subscription_checkout: the signup is stored before the student  *)
(* gets the address, unless the database fails.                            *)
StoreSignup(b) ==
  LET t == tab[b].txn
  IN /\ tab[b].op = "signup"
     /\ \/ /\ signups' = IF \E i \in DOMAIN signups : signups[i] = t THEN signups
                           ELSE Append(signups, t)
           /\ paddle' = [paddle EXCEPT ![t].state = IF @ = "ready" THEN "offered" ELSE @]
        \/ UNCHANGED <<signups, paddle>>
     /\ tab' = [tab EXCEPT ![b] = Idle]
     /\ UNCHANGED <<stripe, webhooks, checkouts, Unsettled>>

(* _handle_enroll: an active subscription is looked for ...                *)
HasSubscription(p) ==
  \E t \in Txn : subscriptions[t].status \in Active /\ subscriptions[t].payer = p

EnrollCheck(b, p, c) ==
  /\ tab[b] = Idle
  /\ HasSubscription(p) \/ c = FreeCourse
  /\ tab' = [tab EXCEPT ![b] = [op |-> "grant", payer |-> p, course |-> c,
                                by |-> IF HasSubscription(p) THEN "subscription" ELSE "free"]]
  /\ UNCHANGED <<stripe, paddle, webhooks, checkouts, signups, Unsettled>>

(* ... and, in a transaction of its own, the student enrolled.             *)
Grant(b) ==
  /\ tab[b].op = "grant"
  /\ EnrollOnce(tab[b].payer, tab[b].course, tab[b].by)
  /\ tab' = [tab EXCEPT ![b] = Idle]
  /\ UNCHANGED <<stripe, paddle, webhooks, checkouts, signups, payments, subscriptions,
                 unknown, lost>>

-----------------------------------------------------------------------------
(* The students pay, and the providers have something to tell.             *)
PayStripe(s) ==
  /\ stripe[s].state = "offered"
  /\ stripe' = [stripe EXCEPT ![s].state = "paid"]
  /\ webhooks' = webhooks \cup {[type |-> "session", session |-> s]}
  /\ UNCHANGED <<paddle, tab, checkouts, signups, Unsettled>>

(* Paddle may or may not carry the student's id along.                     *)
Subscribe(t, custom) ==
  /\ paddle[t].state = "offered"
  /\ paddle' = [paddle EXCEPT ![t] = [@ EXCEPT !.state = "completed", !.news = <<"active">>]]
  /\ webhooks' = webhooks \cup
       {[type |-> "transaction", txn |-> t, custom |-> custom],
        [type |-> "subscription", txn |-> t, version |-> 1, status |-> "active", custom |-> custom]}
  /\ UNCHANGED <<stripe, tab, checkouts, signups, Unsettled>>

SubscriptionNews(t, status, custom) ==
  LET version == Len(paddle[t].news) + 1
  IN /\ paddle[t].state = "completed" /\ version <= MaxNews
     /\ \A i \in DOMAIN paddle[t].news : paddle[t].news[i] # "canceled"
     /\ status # paddle[t].news[Len(paddle[t].news)]
     /\ paddle' = [paddle EXCEPT ![t].news = Append(@, status)]
     /\ webhooks' = webhooks \cup {[type |-> "subscription", txn |-> t, version |-> version,
                                    status |-> status, custom |-> custom]}
     /\ UNCHANGED <<stripe, tab, checkouts, signups, Unsettled>>

(* The answer to a webhook is out; if it gets lost, it is sent again.      *)
Acknowledge(m) ==
  \/ webhooks' = webhooks \ {m} /\ UNCHANGED lost
  \/ webhooks' = webhooks /\ lost < MaxLost /\ lost' = lost + 1

(* Faulty variant: the row is completed first, and only a delivery that    *)
(* completed it and lives on enrolls.                                      *)
StripeWebhookSplit(m) ==
  /\ m.type = "session"
  /\ checkouts' = [checkouts EXCEPT ![m.session] = "completed"]
  /\ Acknowledge(m)
  /\ IF checkouts[m.session] = "pending" /\ lost' = lost
       THEN EnrollOnce(stripe[m.session].payer, stripe[m.session].course, m.session)
       ELSE UNCHANGED <<enrollments, activated, budgets>>
  /\ UNCHANGED <<stripe, paddle, tab, signups, payments, subscriptions, unknown>>

(* _handle_webhook: the session's row is completed and its student enrolled *)
(* in one transaction.  A session without a row leaves a diagnostic event.  *)
StripeWebhook(m) ==
  /\ m.type = "session"
  /\ IF checkouts[m.session] = "none"
       THEN unknown' = unknown + 1 /\ UNCHANGED <<checkouts, enrollments, activated, budgets>>
       ELSE /\ checkouts' = [checkouts EXCEPT ![m.session] = "completed"]
            /\ EnrollOnce(stripe[m.session].payer, stripe[m.session].course, m.session)
            /\ UNCHANGED unknown
  /\ Acknowledge(m)
  /\ UNCHANGED <<stripe, paddle, tab, signups, payments, subscriptions>>

(* The student a webhook is about: told by Paddle, or found by the signup. *)
StudentOfTransaction(m) ==
  IF m.custom \/ \E i \in DOMAIN signups : signups[i] = m.txn
    THEN paddle[m.txn].payer ELSE Nobody
StudentOfSubscription(m) ==
  LET p == paddle[m.txn].payer
  IN IF m.custom \/ SignupsOf(p) # {} \/ subscriptions[m.txn] # NoRow THEN p ELSE Nobody

(* _handle_paddle_webhook, transaction.completed: a student known already  *)
(* is not forgotten.                                                       *)
PaddleTransaction(m) ==
  /\ m.type = "transaction"
  /\ payments' = [payments EXCEPT ![m.txn] =
       IF StudentOfTransaction(m) = Nobody /\ @ # "none" THEN @ ELSE StudentOfTransaction(m)]
  /\ Acknowledge(m)
  /\ UNCHANGED <<stripe, paddle, tab, checkouts, signups, subscriptions, enrollments,
                 activated, budgets, unknown>>

(* _handle_paddle_webhook, subscription.*: the row becomes what the webhook *)
(* that arrived last says.                                                 *)
PaddleSubscription(m) ==
  /\ m.type = "subscription"
  /\ IF StudentOfSubscription(m) = Nobody
       THEN unknown' = unknown + 1 /\ UNCHANGED subscriptions
       ELSE /\ subscriptions' = [subscriptions EXCEPT ![m.txn] =
                 [status |-> m.status, payer |-> StudentOfSubscription(m)]]
            /\ UNCHANGED unknown
  /\ Acknowledge(m)
  /\ UNCHANGED <<stripe, paddle, tab, checkouts, signups, payments, enrollments,
                 activated, budgets>>

(* _handle_subscription_status: what the student's success page is told of *)
(* a transaction, by its own subscription, its payment, or the latest      *)
(* subscription of the student.                                            *)
SubscriptionStatus(t) ==
  LET own == {u \in Txn : subscriptions[u] # NoRow /\ subscriptions[u].payer = paddle[t].payer}
  IN CASE payments[t] # "none" /\ subscriptions[t] # NoRow -> {subscriptions[t].status}
       [] payments[t] # "none" /\ subscriptions[t] = NoRow -> {"pending"}
       [] payments[t] = "none" ->
            IF own = {} THEN {"pending"} ELSE {subscriptions[u].status : u \in own}

-----------------------------------------------------------------------------
Deliver == \E m \in webhooks : StripeWebhook(m) \/ PaddleTransaction(m) \/ PaddleSubscription(m)

BillingNext ==
  \/ \E b \in Tab, p \in Payer :
       \/ ReadSignup(b, p)
       \/ \E c \in Course : CreateStripeSession(b, p, c) \/ EnrollCheck(b, p, c)
  \/ \E b \in Tab : \/ StoreSession(b) \/ Grant(b) \/ StoreSignup(b)
                    \/ ReuseTransaction(b) \/ NewTransaction(b) \/ PaddleFails(b)
  \/ \E s \in Session : PayStripe(s)
  \/ \E t \in Txn, custom \in BOOLEAN :
       \/ Subscribe(t, custom)
       \/ \E status \in {"active", "past_due", "canceled"} : SubscriptionNews(t, status, custom)
  \/ Deliver

BillingSpec == BillingInit /\ [][BillingNext]_billingVars

-----------------------------------------------------------------------------
(* Every enrollment was paid for: by this student and for this unit, with a *)
(* Paddle transaction of the student, or it is the free sample.  However    *)
(* tabs and repeated webhooks interleave, the student has one enrollment    *)
(* per unit, announced exactly once, and a budget; and no payment that was  *)
(* started here comes back unknown, or is booked to somebody else.         *)
EnrollmentSound ==
  /\ \A e \in enrollments :
       /\ CASE e.by = "free" -> e.course = FreeCourse
            [] e.by = "subscription" ->
                 \E t \in Txn : paddle[t].payer = e.payer /\ paddle[t].state = "completed"
            [] OTHER -> stripe[e.by] = [state |-> "paid", payer |-> e.payer, course |-> e.course]
       /\ Cardinality({i \in DOMAIN activated : activated[i] = <<e.payer, e.course>>}) = 1
       /\ e.payer \in budgets
       /\ \A f \in enrollments : f.payer = e.payer /\ f.course = e.course => f = e
  /\ unknown = 0
  /\ \A t \in Txn :
       /\ payments[t] \in {"none", paddle[t].payer}
       /\ subscriptions[t] # NoRow => subscriptions[t].payer = paddle[t].payer
       /\ SubscriptionStatus(t) \cap Active # {} => HasSubscription(paddle[t].payer)

(* Who paid a Stripe session is enrolled in the end, whatever webhook is    *)
(* lost or repeated: Stripe delivers again until it is acknowledged.       *)
PaidIsEnrolled ==
  \A s \in Session : stripe[s].state = "paid" ~>
    \E e \in enrollments : e.payer = stripe[s].payer /\ e.course = stripe[s].course

(* "convergent (UPSERT to latest state - webhooks are not ordered)"          *)
(* (schema/0016_subscriptions.sql:24): with no webhook left, the row has    *)
(* the status Paddle gave last.                                            *)
Convergent ==
  \A t \in Txn :
    /\ paddle[t].state = "completed"
    /\ \A m \in webhooks : m.type = "subscription" => m.txn # t
    => subscriptions[t].status = paddle[t].news[Len(paddle[t].news)]
=============================================================================
