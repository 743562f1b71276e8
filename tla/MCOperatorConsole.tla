------------------------ MODULE MCOperatorConsole ------------------------
(* The operator's console: every page of the portal, with two values for   *)
(* each selection and two rows for each table, and two ZeroTier networks;  *)
(* one click fewer on the four pages with the most buttons.                *)
EXTENDS OperatorConsole

MCPages == DOMAIN Pages
MCClicks == [p \in MCPages \union {"vpn"} |-> IF p \in {"deviceDetail", "subscriberDetail", "devices", "settings"} THEN 2 ELSE 3]
=============================================================================
