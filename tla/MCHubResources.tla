--------------------------- MODULE MCHubResources ---------------------------
(* HubResources with a few failures and restarts. *)
EXTENDS HubResources
=============================================================================
