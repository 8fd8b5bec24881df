----------------------------- MODULE MCDialMgr -----------------------------
(* Instances of DialMgr for TLC.                                            *)
EXTENDS DialMgr, TLC

CONSTANTS mms, mail, i1, i2

Mode2 == i1 :> "DATA" @@ i2 :> "GPRS"
InfoDiffers == mms :> i1 @@ mail :> i2
InfoSame == mms :> i1 @@ mail :> i1
InfoMms == mms :> i1
InfoMail == mail :> i1
=============================================================================
