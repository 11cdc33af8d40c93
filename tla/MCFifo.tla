------------------------------- MODULE MCFifo -------------------------------
(***************************************************************************)
(* Three sources on one FIFO bus: audio packets longer than a quantum and  *)
(* with a deadline, a texture block, and a bounced weight that needs two   *)
(* slices at half the bus bandwidth.                                       *)
(***************************************************************************)
EXTENDS FifoScheduler

CONSTANTS a1, a2, x1, w1

MCTxn == {a1, a2, x1, w1}

MCTx ==
  [t \in MCTxn |->
    CASE t = a1 -> [source |-> "audio",   qos |-> "critical", size_bytes |-> 9, inst |-> 1]
      [] t = a2 -> [source |-> "audio",   qos |-> "critical", size_bytes |-> 3, inst |-> 1]
      [] t = x1 -> [source |-> "texture", qos |-> "normal",   size_bytes |-> 14, inst |-> 1]
      [] t = w1 -> [source |-> "weight",  qos |-> "high",     size_bytes |-> 4, inst |-> 7]]

MCCfg ==
  [bus_bw |-> 3, quantum_us |-> 2, audio_deadline_us |-> 3,
   dma_path |-> "bounce", memcpy_bw |-> 12, memcpy_cycles |-> 3,
   sgl_entry_bytes |-> 2, dma_setup_cycles |-> 5,
   compression |-> "none", ratio |-> [weight |-> <<2, 1>>, texture |-> <<2, 1>>],
   decompressor_bw |-> 4, hw_setup_cycles |-> 7,
   cpu_decompress_bw |-> 1, cpu_cycles_per_byte |-> 5,
   mib |-> 2, lod_mb |-> [l \in 0..2 |-> CASE l = 0 -> 3 [] l = 1 -> 2 [] l = 2 -> 1]]
=============================================================================
