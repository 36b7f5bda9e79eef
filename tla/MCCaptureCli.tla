----------------------------- MODULE MCCaptureCli -----------------------------
(* Command lines for the model checking of CaptureCli: one for every way the *)
(* tool can take.                                                          *)
EXTENDS CaptureCli

CONSTANTS c1, c2

Given(word, options) == [Defaults EXCEPT !.mode = word, !.given = options]

MCCommandLines ==
  {Given(w, {}) : w \in {"profiling", "memory", "crash", "graphics"}}
  \cup {Given("raytracing", {"rra-auto-capture"}), Given("memory", {"system-info"}),
        [Given("raytracing", {"rra-delay-ms"}) EXCEPT !.rraDelay = 50],
        [Given("clocks", {"clock-mode"}) EXCEPT !.clock = "stable"],
        [Given("clocks", {"gpu-index"}) EXCEPT !.gpu = NumGpus]}

(* Only the memory trace.                                                  *)
MemoryCommandLine == {Given("memory", {})}
==============================================================================
