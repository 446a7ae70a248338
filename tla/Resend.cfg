SPECIFICATION ResendSpec
CONSTANT RESEND_COOLDOWN = 3
INVARIANT ResendWaitsOutTheCooldown
CHECK_DEADLOCK FALSE
