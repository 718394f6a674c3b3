------------------------- MODULE MCGenerationQueue -------------------------
(* Small instances of GenerationQueue: the values of its constants. *)
EXTENDS GenerationQueue, TLC

CONSTANTS c1, c2, p1, p2, vendor, other, chapter

\* One chapter-bound analysis job.
OneAIJob == (1 :> "AI")
OneVendor == (1 :> vendor)
OneChapter == (1 :> chapter)

\* Two TTS jobs, each of a vendor of its own.
TwoTTSJobs == [j \in {1, 2} |-> "TTS"]
OwnVendor == (1 :> vendor @@ 2 :> other)
TwoWithoutChapter == [j \in {1, 2} |-> NoChapter]

TwoTTSConsumers == (c1 :> "TTS" @@ c2 :> "TTS")
TwoAIConsumers == (c1 :> "AI" @@ c2 :> "AI")
ApartProcesses == (c1 :> p1 @@ c2 :> p2)
OneProcess == [c \in {c1, c2} |-> p1]

ServiceCapacity1 == [s \in {"AI", "TTS"} |-> 1]
VendorCapacity1 == [p \in Providers |-> 1]
=============================================================================
