--------------------------- MODULE MCAddressExclude ---------------------------
(* address_exclude over 3-bit "IPv4" and 4-bit "IPv6" address spaces. *)
EXTENDS AddressExclude

MCW4 == 3
MCW6 == 4
=============================================================================
