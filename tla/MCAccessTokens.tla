--------------------------- MODULE MCAccessTokens ---------------------------
(* A small instance of AccessTokens: the role of the bootstrap template and one  *)
(* created by an administrator, an earlier release with one permission less.     *)
EXTENDS AccessTokens, TLC

CONSTANTS ORG_ADMIN, editor, read, create

MCRegistry  == <<read, create>>
MCTemplates == ORG_ADMIN :> {read, create}
MCFormer    == {read}
=============================================================================
