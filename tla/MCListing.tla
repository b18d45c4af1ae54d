----------------------------- MODULE MCListing -----------------------------
EXTENDS Listing, TLC

CONSTANTS c1, c2, s1, text

MCHome == s1 :> c1
=============================================================================
