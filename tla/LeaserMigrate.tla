---------------------------- MODULE LeaserMigrate ----------------------------
(***************************************************************************)
(* One call of migrate_leases (contracts/leaser/src/migrate.rs): the       *)
(* leaser walks its customers in order and, for each one, schedules the    *)
(* migration of all of the customer's leases if they fit in what is left   *)
(* of max_leases, or stops and returns that customer as the one to start   *)
(* the next call from. A customer is never split over two batches. An      *)
(* error reading a customer, converting its number of leases to MaxLeases  *)
(* (u32) or scheduling a migration aborts the call, and the transaction    *)
(* with it.                                                                *)
(*                                                                         *)
(* The iteration is modelled step by step: one step per customer visited   *)
(* and one per lease scheduled. A customer is a record: ok (FALSE: the     *)
(* iterator yields an error) and n, its number of leases; lease k of      *)
(* customer c is <<c, k>>.                                                 *)
(***************************************************************************)
EXTENDS Integers, Sequences

CONSTANTS
    MaxCustomers,   \* the longest customer list of a call
    MaxLen,         \* the most leases of one customer
    MaxLeasesMax    \* MaxLeases::MAX (u32::MAX), scaled down

ASSUME {MaxCustomers, MaxLen, MaxLeasesMax} \subseteq Nat

VARIABLES
    customers,   \* the customers iterator of the call
    maxLeases,   \* max_leases of the call
    pos,         \* the customer the iteration is at
    left,        \* MigrateBatch::leases_left
    lease,       \* the customer's lease being scheduled; 0: between customers
    msgs,        \* MigrateBatch::msgs, the migrations scheduled
    result       \* Running, Err, or Ok(c): next_customer c (c = 0: None)

vars == <<customers, maxLeases, pos, left, lease, msgs, result>>

Customer == [ok : BOOLEAN, n : 0..MaxLen]
NoCustomer == 0
Running == [kind |-> "Running", next |-> NoCustomer]
Err == [kind |-> "Err", next |-> NoCustomer]
Ok(c) == [kind |-> "Ok", next |-> c]

-----------------------------------------------------------------------------
(* The plan of a call computed directly: customers are taken while the     *)
(* leases of each fit in what is left; the first that does not is next.    *)
(* Defined for a list of readable customers whose lease counts convert.    *)
RECURSIVE PlanFrom(_, _, _, _)
PlanFrom(cs, i, budget, scheduled) ==
    IF i > Len(cs) THEN [msgs |-> scheduled, next |-> NoCustomer]
    ELSE IF cs[i].n <= budget
         THEN PlanFrom(cs, i + 1, budget - cs[i].n,
                       scheduled \o [k \in 1..cs[i].n |-> <<i, k>>])
         ELSE [msgs |-> scheduled, next |-> i]

Plan(cs, max) == PlanFrom(cs, 1, max, <<>>)

\* The list can be migrated without an error.
Readable(cs) == \A i \in 1..Len(cs) : cs[i].ok /\ cs[i].n <= MaxLeasesMax

-----------------------------------------------------------------------------
\* Mutant: a plain subtraction in place of checked_sub.
FitsUnchecked(n) == TRUE

\* Mutant: a customer fits only if it leaves room for one more lease.
FitsStrict(n) == left > n

(* leases_left.checked_sub(leases_nb) is Some: the customer's leases fit. *)
Fits(n) == left >= n

\* Mutant: the customer's leases are not deducted from leases_left.
Deducted(n) == left

\* leases_left = left
Deduct(n) == left - n

-----------------------------------------------------------------------------
(* MigrateBatch::new(new_code_id, max_leases), over any customer list the *)
(* leaser's storage can yield.                                             *)
Init ==
    /\ customers \in UNION {[1..k -> Customer] : k \in 0..MaxCustomers}
    /\ maxLeases \in 0..MaxLeasesMax
    /\ pos = 1
    /\ left = maxLeases
    /\ lease = 0
    /\ msgs = <<>>
    /\ result = Running

(* find_map visits the next customer: an error item aborts; otherwise     *)
(* migrate_or_be_next converts its lease count (try_into, an error if it  *)
(* exceeds MaxLeases) and either takes the customer, whose leases are then *)
(* scheduled one by one, or returns it as next_customer.                  *)
VisitCustomer ==
    /\ result = Running
    /\ lease = 0
    /\ pos <= Len(customers)
    /\ LET c == customers[pos] IN
       \/ /\ ~c.ok \/ c.n > MaxLeasesMax
          /\ result' = Err
          /\ UNCHANGED <<pos, left, lease>>
       \/ /\ c.ok /\ c.n <= MaxLeasesMax
          /\ Fits(c.n)
          /\ left' = Deduct(c.n)
          /\ IF c.n = 0 THEN pos' = pos + 1 /\ lease' = 0
                        ELSE pos' = pos /\ lease' = 1
          /\ UNCHANGED result
       \/ /\ c.ok /\ c.n <= MaxLeasesMax
          /\ ~Fits(c.n)
          /\ result' = Ok(pos)
          /\ UNCHANGED <<pos, left, lease>>
    /\ UNCHANGED <<customers, maxLeases, msgs>>

(* schedule_migrate_wasm_no_reply of the customer's next lease; an error  *)
(* stops the inner find_map and aborts the call.                          *)
ScheduleLease(fails) ==
    /\ result = Running
    /\ lease > 0
    /\ \/ /\ fails
          /\ result' = Err
          /\ UNCHANGED <<pos, lease, msgs>>
       \/ /\ ~fails
          /\ msgs' = Append(msgs, <<pos, lease>>)
          /\ IF lease = customers[pos].n
             THEN pos' = pos + 1 /\ lease' = 0
             ELSE pos' = pos /\ lease' = lease + 1
          /\ UNCHANGED result
    /\ UNCHANGED <<customers, maxLeases, left>>

\* The customers are exhausted: next_customer is None.
Exhausted ==
    /\ result = Running
    /\ lease = 0
    /\ pos > Len(customers)
    /\ result' = Ok(NoCustomer)
    /\ UNCHANGED <<customers, maxLeases, pos, left, lease, msgs>>

\* The call has returned.
Returned ==
    /\ result # Running
    /\ UNCHANGED vars

Next ==
    \/ VisitCustomer
    \/ \E fails \in BOOLEAN : ScheduleLease(fails)
    \/ Exhausted
    \/ Returned

Spec == Init /\ [][Next]_vars

-----------------------------------------------------------------------------
TypeOK ==
    /\ customers \in UNION {[1..k -> Customer] : k \in 0..MaxCustomers}
    /\ maxLeases \in 0..MaxLeasesMax
    /\ pos \in 1..(MaxCustomers + 1)
    /\ left \in 0..MaxLeasesMax
    /\ lease \in 0..MaxLen
    /\ msgs \in Seq((1..MaxCustomers) \X (1..MaxLen))
    /\ result \in {Running, Err} \cup {Ok(c) : c \in 0..MaxCustomers}

(* A call that returns Ok has scheduled exactly the migrations of the plan *)
(* and names the plan's next customer: every lease of each customer before *)
(* next_customer, in order, none of next_customer's or later, never more   *)
(* than max_leases; every customer's leases were converted and scheduled. *)
ResultIsPlan ==
    result.kind = "Ok" =>
        /\ Readable(SubSeq(customers, 1, IF result.next = NoCustomer
                                         THEN Len(customers)
                                         ELSE result.next))
        /\ LET plan == Plan(customers, maxLeases)
           IN  msgs = plan.msgs /\ result.next = plan.next

(* While the call runs, the migrations scheduled and the room left always *)
(* add up to max_leases: the batch never outgrows it, even in the middle  *)
(* of a customer's leases.                                                 *)
BudgetAccounted ==
    result = Running =>
        Len(msgs) + left + (IF lease > 0 THEN customers[pos].n - lease + 1
                                          ELSE 0)
            = maxLeases

=============================================================================
