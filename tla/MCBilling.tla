----------------------------- MODULE MCBilling -----------------------------
(* An instance of Billing for TLC. *)
EXTENDS Billing

CONSTANTS alice,         \* an account
          visitor,       \* an ip hash
          article,       \* a /process request
          speech, song,  \* /tts requests with an API key
          payout,        \* a withdrawal
          hello          \* an anonymous /tts request

RouteOf == [r \in Requests |-> CASE r = article -> "process"
                                [] r \in {speech, song} -> "tts"
                                [] r = payout -> "withdraw"
                                [] r = hello -> "anonymous"]
PayerOf == [r \in Requests |-> IF r = hello THEN visitor ELSE alice]
CharsOf == [r \in Requests |-> 2]
CostOf  == [r \in Requests |-> IF r \in {article, payout} THEN 1 ELSE 2]

\* Anonymous callers have 300 characters a day, accounts 1000.
LimitOf == [k \in Payers |-> IF k = visitor THEN 2 ELSE 3]

OneOrTwo == {1, 2}
=============================================================================
