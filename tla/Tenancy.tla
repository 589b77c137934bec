------------------------------- MODULE Tenancy -------------------------------
(* What Accounts and Connectors have in common.                             *)

CONSTANTS
  Tenant,   \* tenants: the organisations one installation serves
  Req       \* requests that may be under way at a time

=============================================================================
