----------------------------- MODULE ResendCode -----------------------------
(***************************************************************************)
(* "Send a new code" on the verification and reset pages: Resend of        *)
(* apps/dashboard/src/components/auth/forms.tsx with the Countdown of      *)
(* parts.tsx and resendAction, against the cooldown of                     *)
(* services/api/dashboard/auth/service.py.  The page opens just after a    *)
(* code was sent; the clocks of browser and server run alike; the hourly   *)
(* limit and codes asked for elsewhere are left out.                       *)
(***************************************************************************)
EXTENDS Integers

CONSTANT RESEND_COOLDOWN        \* 60 seconds in the code

VARIABLES
    cooldown,       \* server: seconds until another code may be sent
    state,          \* the form state of resendAction: its message and wait
    left,           \* browser: seconds the Countdown shows
    asking          \* resendAction is under way

resendVars == <<cooldown, state, left, asking>>

ResendInit ==
    /\ cooldown = RESEND_COOLDOWN
    /\ state = [message |-> "", wait |-> RESEND_COOLDOWN]
    /\ left = RESEND_COOLDOWN
    /\ asking = FALSE

Second(n) == IF n > 0 THEN n - 1 ELSE 0

Tick ==
    /\ cooldown' = Second(cooldown)
    /\ left' = Second(left)
    /\ UNCHANGED <<state, asking>>

Offered == left = 0

Ask ==
    /\ Offered /\ ~asking
    /\ asking' = TRUE
    /\ UNCHANGED <<cooldown, state, left>>

(* The key of the Countdown is made of wait and message: with the same key *)
(* and the same seconds it goes on where it stands.                        *)
CountdownAt(next) == IF next = state THEN left ELSE next.wait

Answered(next) ==
    /\ asking
    /\ asking' = FALSE
    /\ state' = next
    /\ left' = CountdownAt(next)

CodeSent ==
    /\ cooldown = 0
    /\ cooldown' = RESEND_COOLDOWN
    /\ Answered([message |-> "on its way", wait |-> RESEND_COOLDOWN])

TooSoon ==
    /\ cooldown > 0
    /\ Answered([message |-> "wait", wait |-> cooldown])
    /\ UNCHANGED cooldown

ResendNext == Tick \/ Ask \/ CodeSent \/ TooSoon

ResendSpec == ResendInit /\ [][ResendNext]_resendVars

-----------------------------------------------------------------------------

(* parts.tsx:158: it "waits out the cooldown the server enforces": the     *)
(* button is only offered when the server would send another code.         *)
ResendWaitsOutTheCooldown == Offered /\ ~asking => cooldown = 0
=============================================================================
