--------------------------- MODULE PaymentSecrets ---------------------------
(***************************************************************************)
(* The Stripe secrets behind the lock AppState.payments: an admin seals a  *)
(* secret key and a webhook secret (sonotxt-api/src/routes/admin.rs),      *)
(* checkouts are made with the one and webhooks verified with the other    *)
(* (routes/payments.rs).  Checkouts and webhooks keep the write guard over *)
(* their awaits, so that no secret changes under them.                     *)
(*                                                                         *)
(* hwpay is not part of the repository: a processor is taken to use what   *)
(* is sealed at the call of payments.stripe().                             *)
(***************************************************************************)
EXTENDS Requests

CONSTANT MaxSeals  \* bound on the pairs of secrets that are sealed

ASSUME PaymentSecretsAssumption == MaxSeals \in Nat /\ Nothing \notin Handlers

VARIABLES holder,      \* the request with the write guard
          sealedKey,   \* the pair that the secret key is of, 0 for none
          sealedHook,  \* the pair that the webhook secret is of
          sealCount,   \* calls that sealed anything
          checkouts,   \* those answered, with their key and the seals before
          refused      \* those of which a webhook was refused (history)

secrets == <<sealedKey, sealedHook, sealCount>>
secretVars == <<holder, secrets, checkouts, refused>>

SecretLocations == {"calling", "crediting"}

SecretsInit == /\ holder = Nothing
               /\ sealedKey = 0 /\ sealedHook = 0 /\ sealCount = 0
               /\ checkouts = {} /\ refused = {}

Free == holder = Nothing

\* The guard goes with the request.
Release(h) == holder' = IF holder = h THEN Nothing ELSE holder
-----------------------------------------------------------------------------
(* seal_stripe_secrets: there is no await between the guard and the        *)
(* answer, but two stores.                                                 *)

SealKey == /\ Free /\ sealCount < MaxSeals
           /\ sealCount' = sealCount + 1
           /\ sealedKey' = sealCount + 1

SealBoth == /\ SealKey
            /\ sealedHook' = sealCount + 1
            /\ UNCHANGED <<requests, holder, checkouts, refused>>

\* The request has no webhook secret.
SealKeyOnly == SealKey /\ UNCHANGED <<requests, holder, sealedHook, checkouts, refused>>

\* The second store fails, and so does the request; the first one stays.
SealHalf == /\ SealKey /\ Fault
            /\ UNCHANGED <<pc, local, holder, sealedHook, checkouts, refused>>
-----------------------------------------------------------------------------
\* Mutant: the guard is released before the call.
LockForCheckout_Brief(h) ==
    /\ Free /\ sealedKey > 0
    /\ Begin(h, "calling", sealedKey)
    /\ UNCHANGED secretVars

\* create_stripe_checkout up to the call of Stripe; without a key it is refused.
LockForCheckout(h) ==
    /\ Free /\ sealedKey > 0
    /\ Begin(h, "calling", sealedKey)
    /\ holder' = h
    /\ UNCHANGED <<secrets, checkouts, refused>>

\* Stripe has made the session for the account of the key.
AnswerCheckout(h) ==
    /\ At(h, "calling")
    /\ checkouts' = checkouts \cup {[key |-> local[h], after |-> sealCount]}
    /\ Release(h)
    /\ End(h)
    /\ UNCHANGED <<secrets, refused>>

\* The call fails, or the session has no URL.
CheckoutFails(h) == /\ At(h, "calling")
                    /\ Release(h)
                    /\ End(h)
                    /\ UNCHANGED <<secrets, checkouts, refused>>

\* stripe_webhook for a paid checkout, signed with the secret of its account.
\* An accepted one is credited under the guard.
AcceptWebhook(h, c) == /\ Free /\ sealedKey > 0 /\ sealedHook = c.key
                       /\ Begin(h, "crediting", c.key)
                       /\ holder' = h
                       /\ UNCHANGED <<secrets, checkouts, refused>>

RefuseWebhook(c) == /\ Free
                    /\ sealedKey = 0 \/ sealedHook # c.key
                    /\ refused' = refused \cup {c}
                    /\ UNCHANGED <<requests, holder, secrets, checkouts>>

AnswerWebhook(h) == /\ At(h, "crediting")
                    /\ Release(h)
                    /\ End(h)
                    /\ UNCHANGED <<secrets, checkouts, refused>>

\* Dropping the future drops the guard; Stripe may have made the session.
DropSecrets(h) == /\ Dropped(h)
                  /\ Release(h)
                  /\ UNCHANGED <<secrets, checkouts, refused>>

SecretsNext ==
    \/ SealBoth \/ SealKeyOnly \/ SealHalf
    \/ \E h \in Handlers : \/ LockForCheckout(h) \/ AnswerCheckout(h) \/ CheckoutFails(h)
                           \/ \E c \in checkouts : AcceptWebhook(h, c)
                           \/ AnswerWebhook(h) \/ DropSecrets(h)
    \/ \E c \in checkouts : RefuseWebhook(c)

SecretsSpec == RequestsInit /\ SecretsInit /\ [][SecretsNext]_<<requests, secretVars>>
-----------------------------------------------------------------------------
(* Type correctness.                                                       *)
SecretsTypeOK ==
    /\ RequestsTypeOK(SecretLocations, 1..MaxSeals)
    /\ holder \in Handlers \cup {Nothing}
    /\ sealCount \in 0..MaxSeals
    /\ sealedKey \in 0..sealCount /\ sealedHook \in 0..sealCount
    /\ checkouts \subseteq [key : 1..MaxSeals, after : 0..MaxSeals]
    /\ refused \subseteq checkouts

(* The webhook of a checkout is refused only if secrets were sealed after  *)
(* the checkout was answered, or the key that is sealed came without its   *)
(* webhook secret: no seal falls between the key that a checkout uses and  *)
(* its answer.  A webhook that is refused is a payment without credit.     *)
WebhookVerifies == \A c \in refused : c.after < sealCount \/ sealedKey # sealedHook
=============================================================================
