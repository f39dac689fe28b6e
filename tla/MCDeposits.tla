----------------------------- MODULE MCDeposits -----------------------------
(* Instances of Deposits for TLC. *)
EXTENDS Deposits

CONSTANTS checkout,   \* a Stripe checkout by an account that is a user
          orphan,     \* a Stripe checkout by an account without a users row
          transfer,   \* an Asset Hub transfer that is to be swept
          vain,       \* another one, by an account without a credits row
          note,       \* a Penumbra note for a stored address
          stray,      \* a Penumbra note for an index nobody owns
          h1, h2, h3, api1, api2

Checkouts == {checkout, orphan}
Notes == {note, stray}
Transfers == {transfer, vain}

ChainOfPayments == [p \in Payments |-> CASE p \in Checkouts -> "stripe"
                                         [] p \in Notes     -> "penumbra"
                                         [] p \in Transfers -> "polkadot_assethub"]
KnownPayments == Payments \ {stray}
UserPayments  == Payments \cap {checkout}
SweptPayments == Payments \cap Transfers
PaymentsWithCredits == Payments \ {vain}

\* A scene limits a behaviour to some payments, reports by hand, handlers and
\* faults, so that one run covers unlike situations without their product.
CONSTANT Scenes
VARIABLE scene

\* Three handlers with two kinds of checkout, and with a checkout and a
\* transfer; two handlers with a checkout and a note, with two notes, and with two
\* transfers, all of them also reported by hand.
Crowded(ps) == [payments |-> ps, byHand |-> {}, handlers |-> {h1, h2, h3}, faults |-> 2]
ByHand(ps)  == [payments |-> ps, byHand |-> ps, handlers |-> {h1, h2}, faults |-> 1]

FiveScenes == {Crowded({checkout, orphan}), Crowded({checkout, transfer}),
               ByHand({checkout, note}), ByHand({note, stray}),
               ByHand({transfer, vain})}
OneCheckout == {[payments |-> {checkout}, byHand |-> {}, handlers |-> {h1, h2}, faults |-> 1]}

InScene == /\ arrived \subseteq scene.payments
           /\ \A h \in Handlers : cur[h] # NoPayment =>
                 /\ h \in scene.handlers /\ cur[h] \in scene.payments
                 /\ pc[h] \in Recording => cur[h] \in scene.byHand
           /\ faults <= scene.faults

SceneInit == Init /\ scene \in Scenes
SceneNext == Next /\ UNCHANGED scene /\ InScene'
SceneSpec == /\ SceneInit
             /\ [][SceneNext]_<<vars, scene>>
             /\ \A h \in Handlers : WF_vars(Work(h))
             /\ \A p \in Payments : SF_vars(Redeliver(p) /\ UNCHANGED scene /\ InScene')

\* h1 and h3 are served by the same process.
HomeOfHandlers == [h \in Handlers |-> IF h = h2 THEN api2 ELSE api1]
=============================================================================
