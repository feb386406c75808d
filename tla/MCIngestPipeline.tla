-------------------------- MODULE MCIngestPipeline --------------------------
(* Instances of IngestPipeline: all runs start on one day.  The goroutines *)
(* of a stage are interchangeable, so the safety runs use symmetry.        *)
EXTENDS IngestPipeline, TLC
MCShardOf == [r \in Runs |-> "day"]
WorkerSymmetry == Permutations(DataWorkers) \cup Permutations(IndexWorkers)
=============================================================================
