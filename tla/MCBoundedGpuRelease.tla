------------------------ MODULE MCBoundedGpuRelease ------------------------
(* BoundedGpuRelease on checkouts that are right or wrong in one respect.  *)
EXTENDS BoundedGpuRelease

Upstream == [name |-> "2.2.0", loaders |-> 1, apiClasses |-> {"CompiledModel", "Environment"},
             x86Libraries |-> {Runtime, JniLibrary}]

Contract ==
  [coordinate |-> "bss.1", capability |-> "bss.1",
   nativeMatrix |-> Arm64 :> {Runtime, JniLibrary, Accelerator, ShimLibrary}
                    @@ [abi \in OtherAbis \cup {"x86"} |-> {Runtime, JniLibrary}],
   removed |-> EachAbi(OtherAbis, {Accelerator})]

Base ==
  [commit |-> "c1", version |-> "bss.1", upstream |-> Upstream, nativePins |-> "2.2.0",
   acceleratorPin |-> "2.2.0", contract |-> Contract, shim |-> "bss.1"]

Next220(upstream) ==
  [Base EXCEPT !.commit = "c2", !.upstream = upstream, !.nativePins = upstream.name,
               !.acceleratorPin = upstream.name]
Newer == [Upstream EXCEPT !.name = "2.2.1"]

(* The checkout as it should be, and one each with: another version of the *)
(* .env file; a newer LiteRT that is right, or has two loader strings, the *)
(* implementation's class in the API, or a third x86 library; pins of the  *)
(* libraries or of the patch left behind; a contract that keeps an         *)
(* unbounded accelerator; a shim of another capability.                    *)
MCCheckouts ==
  {Base, [Base EXCEPT !.commit = "c3", !.version = "bss.2"],
   Next220(Newer), Next220([Newer EXCEPT !.loaders = 2]),
   Next220([Newer EXCEPT !.apiClasses = @ \cup {"Interpreter"}]),
   Next220([Newer EXCEPT !.x86Libraries = @ \cup {Accelerator}]),
   [Next220(Newer) EXCEPT !.nativePins = "2.2.0"],
   [Next220(Newer) EXCEPT !.acceleratorPin = "2.2.0"],
   [Base EXCEPT !.commit = "c4", !.contract.removed = {}],
   [Base EXCEPT !.commit = "c5", !.shim = "bss.2"]}

(* The right ones, one of another version and one that fails its tests.    *)
MCPushed ==
  {Base, Next220(Newer), [Base EXCEPT !.commit = "c3", !.version = "bss.2"],
   [Base EXCEPT !.commit = "c5", !.shim = "bss.2"]}
=============================================================================
