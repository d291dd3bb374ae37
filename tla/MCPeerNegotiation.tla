------------------------- MODULE MCPeerNegotiation --------------------------
(***************************************************************************)
(* PeerNegotiation for TLC: the requests the client's goroutines make.     *)
(***************************************************************************)
EXTENDS PeerNegotiation

\* A configuration request, and the request of the longest and of the
\* shortest contract negotiation.
MCRequests == {"HostConfigReqMsg", "ContractCreateReqMsg", "ContractDownloadReqMsg"}

=============================================================================
