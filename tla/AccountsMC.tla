------------------------------ MODULE AccountsMC ------------------------------
(* The enroll service: billing and authentication.  Their models share no    *)
(* variable, so each behaviour is about one of them, the subject; for       *)
(* authentication it is either the resets of one address that signed up     *)
(* with a password, or one session after the sign-ins of all addresses     *)
(* with all identities.                                                    *)
EXTENDS Billing, Auth

CONSTANTS
  ResetAddress,         \* whose resets there are
  MaxClicks,            \* bounds the enrollments by a click
  t1, s1, x1, d1, d2    \* model values

VARIABLE subject

vars == <<billingVars, authVars, subject>>

ResetsOfOne ==
  /\ \A p \in Person \ {ResetAddress} : users[p] = NoUser /\ students[p] = "none"
  /\ \A x \in Identity : identities[x] = "none"
  /\ \A d \in Desk : desk[d] # Free => desk[d].person = ResetAddress

(* Requests fail one by one here, and do not die together; the throttle is  *)
(* tried with the resets.                                                  *)
OneSession ==
  /\ Len(logins) <= 1 /\ crashes = 0 /\ \A p \in Person : failures[p] = 0
  /\ \A d \in Desk : desk[d].op # "token"

Init ==
  /\ subject \in {"billing", "resets", "identities"} /\ BillingInit /\ AuthInit
  /\ subject = "billing" => students = [p \in Person |-> "none"]
  /\ subject = "resets" => ResetsOfOne

(* A webhook changes none of them, so the bound stops no delivery.          *)
Clicked ==
  Cardinality({e \in enrollments : e.by \in {"free", "subscription"}})
    + Cardinality({b \in Tab : tab[b].op = "grant"})

BillingStep(A) == subject = "billing" /\ A /\ Clicked' <= MaxClicks /\ UNCHANGED <<authVars, subject>>

AuthStep ==
  /\ AuthNext /\ UNCHANGED <<billingVars, subject>>
  /\ \/ subject = "resets" /\ ResetsOfOne'
     \/ subject = "identities" /\ OneSession'

Next == BillingStep(BillingNext) \/ AuthStep

(* The providers send a webhook until it is acknowledged.                  *)
Spec == Init /\ [][Next]_vars /\ WF_vars(BillingStep(Deliver))
=============================================================================
