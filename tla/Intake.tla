-------------------------------- MODULE Intake --------------------------------
(***************************************************************************)
(* How goods become parcels: members forecast tracking numbers, the        *)
(* warehouse scans what arrives, and what nobody forecast is kept as       *)
(* unclaimed until a member claims it and an administrator agrees.         *)
(*                                                                         *)
(* Source: backend/apps/parcels/services.py and import_export.py. Two      *)
(* tables share the tracking numbers, each with a unique index of its own: *)
(* parcels and unclaimed_parcels. Every function is one transaction; one   *)
(* that breaks a unique index rolls back and is no step.                   *)
(***************************************************************************)
EXTENDS Naturals, FiniteSets

CONSTANTS
    Numbers,        \* tracking numbers
    Users,          \* members
    Warehouses,     \* active warehouses
    Null            \* SQL NULL

ASSUME NullAssumption == Null \notin Users \cup Warehouses \cup Numbers

VARIABLES
    parcels,        \* parcels, by tracking number
    unclaimed       \* unclaimed_parcels, by tracking number

intakeVars == <<parcels, unclaimed>>

ParcelRow == [status : {"NONE", "PENDING_INBOUND", "IN_STOCK"}, user : Users \cup {Null},
              warehouse : Warehouses \cup {Null}, inbound : Nat]
\* The docs have two more statuses, REJECTED for a refused claim and ARCHIVED for what was
\* dealt with or destroyed (02-domain-model-state-machines.md:172-173). The table has
\* neither: a refused claim makes the parcel UNCLAIMED again.
UnclaimedRow == [status : {"NONE", "UNCLAIMED", "CLAIM_PENDING", "CLAIMED"},
                 warehouse : Warehouses \cup {Null}, claimed_by : Users \cup {Null}]

IntakeTypeOK ==
    /\ parcels \in [Numbers -> ParcelRow]
    /\ unclaimed \in [Numbers -> UnclaimedRow]

IntakeInit ==
    /\ parcels = [n \in Numbers |->
            [status |-> "NONE", user |-> Null, warehouse |-> Null, inbound |-> 0]]
    /\ unclaimed = [n \in Numbers |->
            [status |-> "NONE", warehouse |-> Null, claimed_by |-> Null]]

-----------------------------------------------------------------------------
\* forecast_parcel for one number; import_parcel_forecasts for all rows of a file, or none.
ForecastParcels(u, at) ==
    /\ \A n \in DOMAIN at : parcels[n].status = "NONE"
    /\ parcels' = [n \in Numbers |->
            IF n \in DOMAIN at
            THEN [status |-> "PENDING_INBOUND", user |-> u, warehouse |-> at[n], inbound |-> 0]
            ELSE parcels[n]]
    /\ UNCHANGED unclaimed

\* _inbound_pending_parcel
TakeIn_Again(n) ==          \* mutant: the status is not checked
    /\ parcels[n].status # "NONE"
    /\ parcels' = [parcels EXCEPT ![n].status = "IN_STOCK", ![n].inbound = @ + 1]
    /\ UNCHANGED unclaimed
TakeIn(n) ==
    /\ parcels[n].status = "PENDING_INBOUND"
    /\ parcels' = [parcels EXCEPT ![n].status = "IN_STOCK", ![n].inbound = @ + 1]
    /\ UNCHANGED unclaimed

InboundParcel(n) == TakeIn(n)

\* The scan looks for a forecast in its own warehouse only. A number that was
\* registered as unclaimed before is returned as it is: no step.
ScanInbound(n, wh) ==
    IF parcels[n].status # "NONE" /\ parcels[n].warehouse = wh
    THEN TakeIn(n)
    ELSE /\ unclaimed[n].status = "NONE"
         /\ unclaimed' = [unclaimed EXCEPT ![n] =
                [status |-> "UNCLAIMED", warehouse |-> wh, claimed_by |-> Null]]
         /\ UNCHANGED parcels

SubmitClaim_Second(n, u) ==     \* mutant: a second member may claim over the first
    /\ unclaimed[n].status \in {"UNCLAIMED", "CLAIM_PENDING"}
    /\ unclaimed' = [unclaimed EXCEPT ![n] = [@ EXCEPT !.status = "CLAIM_PENDING", !.claimed_by = u]]
    /\ UNCHANGED parcels
SubmitClaim(n, u) ==
    /\ unclaimed[n].status = "UNCLAIMED"
    /\ unclaimed' = [unclaimed EXCEPT ![n] = [@ EXCEPT !.status = "CLAIM_PENDING", !.claimed_by = u]]
    /\ UNCHANGED parcels

\* A parcel that is inserted on the shelf, with its InboundRecord.
EnterStock(n, u, wh) ==
    /\ parcels[n].status = "NONE"
    /\ parcels' = [parcels EXCEPT ![n] =
            [status |-> "IN_STOCK", user |-> u, warehouse |-> wh, inbound |-> 1]]

\* approve_unclaimed_claim: refused while a parcel of that number exists.
ApproveClaim_Binds(n) ==        \* mutant: takes over the parcel that is there
    /\ unclaimed[n].status = "CLAIM_PENDING"
    /\ parcels' = [parcels EXCEPT ![n] =
            [status |-> "IN_STOCK", user |-> unclaimed[n].claimed_by,
             warehouse |-> unclaimed[n].warehouse, inbound |-> 1]]
    /\ unclaimed' = [unclaimed EXCEPT ![n].status = "CLAIMED"]
ApproveClaim_Unbound(n) ==      \* mutant: the parcel that is there is left with its owner
    /\ unclaimed[n].status = "CLAIM_PENDING"
    /\ \/ EnterStock(n, unclaimed[n].claimed_by, unclaimed[n].warehouse)
       \/ parcels[n].status # "NONE" /\ UNCHANGED parcels
    /\ unclaimed' = [unclaimed EXCEPT ![n].status = "CLAIMED"]
ApproveClaim(n) ==
    /\ unclaimed[n].status = "CLAIM_PENDING"
    /\ EnterStock(n, unclaimed[n].claimed_by, unclaimed[n].warehouse)
    /\ unclaimed' = [unclaimed EXCEPT ![n].status = "CLAIMED"]

RejectClaim(n) ==
    /\ unclaimed[n].status = "CLAIM_PENDING"
    /\ unclaimed' = [unclaimed EXCEPT ![n] = [@ EXCEPT !.status = "UNCLAIMED", !.claimed_by = Null]]
    /\ UNCHANGED parcels

IntakeNext ==
    \/ \E u \in Users, ns \in SUBSET Numbers : \E at \in [ns -> Warehouses] : ForecastParcels(u, at)
    \/ \E n \in Numbers :
        \/ InboundParcel(n)
        \/ \E wh \in Warehouses : ScanInbound(n, wh)
        \/ \E u \in Users : SubmitClaim(n, u)
        \/ ApproveClaim(n)
        \/ RejectClaim(n)

-----------------------------------------------------------------------------
\* Whatever way a number came in (inbound, scan, claim, purchase), repeated or raced,
\* it was received exactly once.
InboundOnce ==
    \A n \in Numbers : parcels[n].inbound = IF parcels[n].status = "IN_STOCK" THEN 1 ELSE 0

\* An approved claim is a parcel in stock that belongs to the member who claimed it, in
\* the warehouse where it was found.
ClaimBecameParcel ==
    \A n \in Numbers : unclaimed[n].status = "CLAIMED" =>
        /\ parcels[n].status = "IN_STOCK"
        /\ parcels[n].user = unclaimed[n].claimed_by /\ parcels[n].user \in Users
        /\ parcels[n].warehouse = unclaimed[n].warehouse

\* A claim stays the first claimant's until it is rejected, and a parcel stays its
\* owner's and its warehouse's for good.
OwnershipKept ==
    [][\A n \in Numbers :
        /\ unclaimed[n].status = "CLAIM_PENDING" =>
                \/ unclaimed'[n].claimed_by = unclaimed[n].claimed_by
                \/ unclaimed'[n].status = "UNCLAIMED"
        /\ parcels[n].status # "NONE" =>
                /\ parcels'[n].user = parcels[n].user
                /\ parcels'[n].warehouse = parcels[n].warehouse]_intakeVars

\* To the rest of the system, all this is parcels being forecast and received as
\* Fulfilment says, and nothing else.
Core == INSTANCE Fulfilment WITH
    Parcels <- Numbers, Waybills <- {}, Batches <- {}, Channels <- {}, TransferNos <- {Null},
    NoTransfer <- Null, Fees <- {}, MaxNotes <- 0,
    waybills <- <<>>, links <- <<>>, batches <- <<>>, events <- <<>>

ImplementsArrivals == Core!Spec

\* "unclaimed: registered by the warehouse but matched to no member" (the domain
\* model): no parcel has the number of an unclaimed one.
UnclaimedIsUnmatched ==
    \A n \in Numbers : unclaimed[n].status = "UNCLAIMED" => parcels[n].status = "NONE"
=============================================================================
