----------------------------- MODULE MCServices -----------------------------
(***************************************************************************)
(* Small instances of the modules for the services around the queue.  They  *)
(* share no state: a behaviour belongs to one of them, `part`, and the      *)
(* others rest in their initial states.                                     *)
(***************************************************************************)
EXTENDS DripSequence, InboundEvents, Cooldown, PlanGate,
        StripeEvents, WebhookHealth, DeferredReply, Erasure, TokenBucket,
        MCContactFilters, Consent, ContactImport, DeliveryLadder

CONSTANTS s1, r1, ev1

VARIABLE part

MCSubscriberOf == [e \in Enrollment |-> s1]

servicesVars == <<seqVars, inboundVars, coolVars, gateVars, stripeVars, hookVars,
                  deferredVars, eraseVars, bucketVars,
                  filterVars, consentVars, importVars, ladderVars, part>>

Part == {"drip", "inbound", "cooldown", "gate", "stripe", "health", "deferred", "erase", "bucket",
         "filters", "consent", "import", "ladder"}

ServicesInit ==
    /\ SeqInit /\ InboundInit /\ CoolInit /\ GateInit
    /\ StripeInit /\ HookInit /\ DeferredInit /\ EraseInit /\ BucketInit
    /\ FilterInit /\ ConsentInit /\ ImportInit /\ LadderInit
    /\ part \in Part
    /\ part # "stripe" => \A ev \in StripeEvent : created[ev] = 1
    /\ part # "ladder" => ~pixel /\ senderAt = "request"

\* A sequence is edited, or loses a contact, between requests and before anybody
\* has unsubscribed; it keeps a step and never goes back to draft.
SeqEdited == <<editVars, goneContacts>>' # <<editVars, goneContacts>>
DripBound ==
    /\ seqStatus' # "draft" /\ ladder' # 0
    /\ SeqEdited => /\ request[r1] = NoRequest
                    /\ stopped = {}
                    /\ goneContacts # {} => seqStatus' = seqStatus

\* What follows an overlap is excepted by the property anyway; the snapshot
\* runs beside one delivery at most.
StripeBound ==
    /\ ~raced'
    /\ snapshot'.at # "no" => \E h \in Hook : hook'[h] = NoHook

\* What follows a keyword lost to a stale copy is excepted by the property; the
\* second call begins while the first is under way.
ConsentBound ==
    /\ ~overtaken'
    /\ \A c, d \in Call : c < d /\ call[d] = NoCall /\ call'[d] # NoCall => call[c] # NoCall

Rest1 == <<inboundVars, coolVars, gateVars, bucketVars>>
Rest2 == <<stripeVars, hookVars, deferredVars, eraseVars>>
Rest3 == <<filterVars, consentVars, importVars, ladderVars>>

ServicesNext ==
    /\ part' = part
    /\ \/ part = "drip" /\ SeqNext /\ DripBound /\ UNCHANGED <<Rest1, Rest2, Rest3>>
       \/ /\ \/ part = "inbound" /\ InboundNext /\ UNCHANGED <<coolVars, gateVars, bucketVars>>
             \/ part = "cooldown" /\ CoolNext /\ UNCHANGED <<inboundVars, gateVars, bucketVars>>
             \/ part = "gate" /\ GateNext /\ UNCHANGED <<inboundVars, coolVars, bucketVars>>
             \/ part = "bucket" /\ BucketNext /\ UNCHANGED <<inboundVars, coolVars, gateVars>>
          /\ UNCHANGED <<seqVars, Rest2, Rest3>>
       \/ /\ \/ /\ part = "stripe" /\ StripeNext /\ StripeBound
                /\ UNCHANGED <<hookVars, deferredVars, eraseVars>>
             \/ /\ part = "health" /\ HookNext
                /\ UNCHANGED <<stripeVars, deferredVars, eraseVars>>
             \/ /\ part = "deferred" /\ DeferredNext
                /\ UNCHANGED <<stripeVars, hookVars, eraseVars>>
             \/ /\ part = "erase" /\ EraseNext
                /\ UNCHANGED <<stripeVars, hookVars, deferredVars>>
          /\ UNCHANGED <<seqVars, Rest1, Rest3>>
       \/ /\ \/ part = "filters" /\ FilterNext /\ FilterBound /\ UNCHANGED <<consentVars, importVars, ladderVars>>
             \/ part = "consent" /\ ConsentNext /\ ConsentBound /\ UNCHANGED <<filterVars, importVars, ladderVars>>
             \/ part = "import" /\ ImportNext /\ UNCHANGED <<filterVars, consentVars, ladderVars>>
             \/ part = "ladder" /\ LadderNext /\ UNCHANGED <<filterVars, consentVars, importVars>>
          /\ UNCHANGED <<seqVars, Rest1, Rest2>>

ServicesSpec ==
    /\ ServicesInit /\ [][ServicesNext]_servicesVars
    /\ SeqFairness /\ EraseFairness
=============================================================================
