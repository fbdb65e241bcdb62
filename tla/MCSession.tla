----------------------------- MODULE MCSession -----------------------------
(* A daemon left over and one of this program's, two sessions one after    *)
(* the other, and the status thread of the first left behind.              *)
EXTENDS Session
=============================================================================
