---------------------------- MODULE PaymentContract ----------------------------
(***************************************************************************)
(* What PaymentService::pay() promises about an idempotency key, and about *)
(* what it tells the callers that use it, without accounts, locks, journal *)
(* or repository: a key is claimed once, is posted at most once, and ends  *)
(* captured or failed for good; every caller gets one answer, and that is  *)
(* what has become of the key.                                             *)
(***************************************************************************)
CONSTANTS
    Calls,
    Keys,
    Refusable   \* whether a provider may refuse to capture what is posted

VARIABLES
    key,        \* the key each call carries
    phase,      \* what has become of a key
    answer      \* what a call was told

cvars == <<key, phase, answer>>

Init ==
    /\ key \in [Calls -> Keys]
    /\ phase = [k \in Keys |-> "free"]
    /\ answer = [c \in Calls |-> "none"]

Becomes(k, from, to) ==
    /\ phase[k] = from
    /\ phase' = [phase EXCEPT ![k] = to]
    /\ UNCHANGED <<key, answer>>

Claim(k)   == Becomes(k, "free", "claimed")
Post(k)    == Becomes(k, "claimed", "posted")
Capture(k) == Becomes(k, "posted", "captured")

\* A failure moves no money, unless the capture of posted money was refused.
Fail(k) ==
    \/ Becomes(k, "claimed", "failed")
    \/ Refusable /\ Becomes(k, "posted", "failed")

\* A call is told what the key has come to, be it by this call or by an earlier one.
\* It is refused while another call is at work on the key, and an exception leaves
\* a key claimed and untouched.
Truth == [captured |-> {"captured"}, failed |-> {"failed"},
          busy |-> {"claimed", "posted"}, threw |-> {"claimed"}]

Answer(c, what) ==
    /\ answer[c] = "none"
    /\ phase[key[c]] \in Truth[what]
    /\ answer' = [answer EXCEPT ![c] = what]
    /\ UNCHANGED <<key, phase>>

Next ==
    \/ \E k \in Keys : Claim(k) \/ Post(k) \/ Capture(k) \/ Fail(k)
    \/ \E c \in Calls, what \in DOMAIN Truth : Answer(c, what)

Spec == Init /\ [][Next]_cvars
=============================================================================
