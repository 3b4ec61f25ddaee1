------------------------------ MODULE FrontEnds ------------------------------
(***************************************************************************)
(* The pages of all front ends.                                            *)
(***************************************************************************)
EXTENDS AdminPages, AdminSetupPages, MemberPages, MobilePages, WebAppPages

PageTable == AdminPageTable @@ AdminSetupTable @@ MemberPageTable @@ MobilePageTable @@ WebPageTable
=============================================================================
