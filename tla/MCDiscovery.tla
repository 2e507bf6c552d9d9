---------------------------- MODULE MCDiscovery ----------------------------
(***************************************************************************)
(* A torrent with two tiers, an empty one between them, a tracker of an    *)
(* unsupported scheme and a separate "announce"; a magnet link with two    *)
(* trackers; one bootstrap node and two other nodes.                       *)
(***************************************************************************)
EXTENDS Discovery, TLC

MCURLs == {"udp1", "udp2", "http1", "wss1"}

MCScheme == "udp1" :> "udp" @@ "udp2" :> "udp" @@ "http1" :> "http" @@ "wss1" :> "wss"

MCAnnounceList == <<<<"wss1", "http1">>, <<>>, <<"udp2">>>>

MCMagnetURLs == <<"udp1", "http1">>

MCDistance == "n1" :> 2 @@ "n2" :> 1 @@ "n3" :> 3
=============================================================================
