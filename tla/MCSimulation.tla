---------------------------- MODULE MCSimulation ----------------------------
(***************************************************************************)
(* Five milliseconds of two microseconds each.  A weight takes one, two or *)
(* four microseconds on the bus, ticks come every three, audio packets     *)
(* every two and more of them than the token bucket can pay for.  The      *)
(* scripted predictor meets every pair of texture bursts, the two others   *)
(* every course that their NPCs can take past each distance.               *)
(***************************************************************************)
EXTENDS Simulation

MCNpcs == <<1, 2>>

MCCfg ==
  [bus_bw |-> 3, quantum_us |-> 2, audio_deadline_us |-> 3,
   dma_path |-> "neuro_dma", memcpy_bw |-> 12, memcpy_cycles |-> 3,
   sgl_entry_bytes |-> 4, dma_setup_cycles |-> 5,
   compression |-> "inline_hw", ratio |-> [weight |-> <<2, 1>>, texture |-> <<2, 1>>],
   decompressor_bw |-> 2, hw_setup_cycles |-> 7,
   cpu_decompress_bw |-> 1, cpu_cycles_per_byte |-> 5,
   mib |-> 2, lod_mb |-> [l \in 0..2 |-> CASE l = 0 -> 4 [] l = 1 -> 2 [] l = 2 -> 1],
   critical_rate_limit_pct |-> 40,
   bulk_weight |-> [high |-> 2, normal |-> 1],
   packet_bytes |-> 4, audio_rate_mbps |-> 2, block_bytes |-> 7]

MCSize == [k \in Key |-> MCCfg.lod_mb[k.lod] * MCCfg.mib]

MCTxn ==
  [source : {"audio"}, weight : {NoWeight}, id : 1..4]
    \cup [source : {"texture"}, weight : {NoWeight}, id : 1..6]
    \cup [source : {"weight"}, weight : Key, id : 1..2]

MCTx ==
  [t \in MCTxn |->
     CASE t.source = "audio"   -> [source |-> "audio", qos |-> "critical",
                                   size_bytes |-> 4, inst |-> 1]
       [] t.source = "texture" -> [source |-> "texture", qos |-> "normal",
                                   size_bytes |-> 7, inst |-> 1]
       [] t.source = "weight"  -> [source |-> "weight", qos |-> "high",
                                   size_bytes |-> MCSize[t.weight], inst |-> t.weight.npc]]

MCInteractions ==
  << [npc |-> 1, at_ms |-> 0, duration_ms |-> 1],
     [npc |-> 2, at_ms |-> 3, duration_ms |-> 1],
     [npc |-> 1, at_ms |-> 4, duration_ms |-> 1],
     [npc |-> 2, at_ms |-> 4, duration_ms |-> 1] >>

MCBand == [stopped_dist_m |-> 2, close_m |-> 3, near_m |-> 3, visible_m |-> 5]

MCSnapshot ==
  { [distance_m |-> 2, in_frustum |-> TRUE,  approaching |-> FALSE],
    [distance_m |-> 4, in_frustum |-> FALSE, approaching |-> FALSE] }

MCMaxDistance == [l \in 0..2 |-> CASE l = 0 -> 10 [] l = 1 -> 30 [] l = 2 -> 100]

Bursts == [at_ms : {0, 1, 2}, rate_mbps : {0, 2, 3}, duration_ms : {2, 3}]

RunsOf(predictors, audio, bursts) ==
  [policy : {"fifo", "qos"}, predictor : predictors, audio_enabled : audio,
   texture_bursts : bursts]

MCRuns ==
  RunsOf({"scripted"}, BOOLEAN, {<<b, c>> : b, c \in Bursts})
    \cup RunsOf({"lod", "intent"}, {TRUE},
                { <<>>, <<[at_ms |-> 1, rate_mbps |-> 2, duration_ms |-> 2]>> })
=============================================================================
