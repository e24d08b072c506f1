------------------------------ MODULE MCVouchers ------------------------------
\* A channel of two lanes, and two calls of RedeemAll on it.
EXTENDS Redemption
=============================================================================
