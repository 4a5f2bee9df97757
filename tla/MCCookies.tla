----------------------------- MODULE MCCookies ------------------------------
(* Small instances of Cookies.                                             *)
EXTENDS Cookies
=============================================================================
