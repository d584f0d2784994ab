-------------------------------- MODULE Peer --------------------------------
(***************************************************************************)
(* Who may use a listener.  Every listener of the gateway passes the       *)
(* remote address of a connection to classifyPeer (fly.go) before it does  *)
(* anything else for it.  An address is abstracted to the range it falls   *)
(* in: Fly's private network fdaa::/16, the tailnet (100.64.0.0/10 or      *)
(* fd7a:115c:a1e0::/48), or anywhere else (an address that does not parse  *)
(* included).  The ranges are disjoint, so the order of the cases in the   *)
(* code does not matter.                                                   *)
(***************************************************************************)

CONSTANTS OnFly,             \* FLY_APP_NAME is set
          TailscaleEnabled   \* --tailscale-enabled

ASSUME PeerAssumption == /\ OnFly \in BOOLEAN
                         /\ TailscaleEnabled \in BOOLEAN

Sources == {"sixpn", "tailnet", "elsewhere"}
PeerKinds == {"reject", "fly", "tailscale"}

classifyPeerOpen(src) ==      \* variant: no rejecting default
    IF src = "sixpn" /\ OnFly THEN "fly" ELSE "tailscale"

classifyPeer(src) ==
    CASE src = "sixpn" /\ OnFly               -> "fly"
      [] src = "tailnet" /\ TailscaleEnabled  -> "tailscale"
      [] OTHER                                -> "reject"

\* fly.go:571-575 in its own words: the tailnet when Tailscale is enabled, 6PN
\* on Fly, nobody else.  It is what the proxies promise (see Relay), stated
\* apart from the function that they call.
TrustedSources == {src \in Sources : \/ src = "sixpn" /\ OnFly
                                     \/ src = "tailnet" /\ TailscaleEnabled}
=============================================================================
