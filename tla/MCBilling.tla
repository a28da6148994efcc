----------------------------- MODULE MCBilling ------------------------------
(* Constants of the model-checked instances of Billing.                    *)
EXTENDS Billing

MCJobs == 1 .. MaxRequests

(* A deposit or withdrawal, and one that no validation refuses.            *)
MCAmounts == {-1, 2}
=============================================================================
