------------------------------- MODULE Loader -------------------------------
(***************************************************************************)
(* efi_main_body of src/src/boot/uefi/efi_loader.c: how the UEFI loader    *)
(* collects the memory map for the kernel and leaves the boot services.    *)
(*                                                                         *)
(* The firmware is external. Its memory map is [version, entries, loader]: *)
(* the version is the map key, loader is what the loader has allocated,    *)
(* which the map shows as LoaderData. Until ExitBootServices succeeds, the *)
(* firmware's own events may change the map between any two steps. Every   *)
(* call to the firmware may fail; then the loader returns to it.           *)
(***************************************************************************)
EXTENDS Integers

CONSTANTS
  Slack,      (* descriptors the buffer has to spare, and the table again: *)
              (* 32                                                        *)
  MaxEntries, (* bound: entries of the map                                 *)
  MaxVersion  (* bound: changes of the map                                 *)

ASSUME LoaderAssumption ==
  Slack \in Nat /\ MaxEntries \in Nat \ {0} /\ MaxVersion \in Nat

VARIABLES
  pc,
  map,        (* the firmware's memory map                                 *)
  bufferCap,  (* descriptors that fit memory_map                           *)
  regionCap,  (* region_capacity                                           *)
  read,       (* the map as GetMemoryMap last returned it, with map_key    *)
  handed      (* the map in the region table and the boot information      *)

loaderVars == <<pc, map, bufferCap, regionCap, read, handed>>

Nothing == [version |-> 0, entries |-> 0, loader |-> {}]

LoaderInit ==
  /\ pc = "files"
  /\ map \in [version : {1}, entries : 1 .. MaxEntries, loader : {{}}]
  /\ bufferCap = 0 /\ regionCap = 0
  /\ read = Nothing /\ handed = Nothing

-----------------------------------------------------------------------------
(***************************************************************************)
(* The firmware.                                                           *)
(***************************************************************************)
Changed(what, n) == [version |-> map.version + 1, entries |-> n, loader |-> map.loader \cup what]

\* An event of the firmware allocates or frees.
FirmwareEvent ==
  /\ pc \notin {"kernel", "returned"}
  /\ map.version < MaxVersion
  /\ \E n \in 1 .. MaxEntries : map' = Changed({}, n)
  /\ UNCHANGED <<pc, bufferCap, regionCap, read, handed>>

\* AllocatePages or AllocatePool for the loader: the map changes.
Allocate(what) ==
  /\ map.version < MaxVersion
  /\ \E n \in 1 .. MaxEntries : map' = Changed(what, n)

-----------------------------------------------------------------------------
(***************************************************************************)
(* The loader.                                                             *)
(***************************************************************************)

\* Root directory, kernel file, initramfs and kernel image.
LoadFiles ==
  /\ pc = "files"
  /\ Allocate({"kernel", "initramfs"})
  /\ pc' = "probe"
  /\ UNCHANGED <<bufferCap, regionCap, read, handed>>

\* The call that tells the size, and AllocatePool of the buffer.
ProbeMap ==
  /\ pc = "probe"
  /\ bufferCap' = map.entries + Slack
  /\ Allocate({"buffer"})
  /\ pc' = "tables"
  /\ UNCHANGED <<regionCap, read, handed>>

AllocateTables ==
  /\ pc = "tables"
  /\ regionCap' = bufferCap + Slack
  /\ Allocate({"regions", "info"})
  /\ pc' = "read"
  /\ UNCHANGED <<bufferCap, read, handed>>

\* GetMemoryMap; it fails if the map has grown beyond the buffer.
ReadMap ==
  /\ pc = "read" /\ map.entries <= bufferCap
  /\ read' = map
  /\ pc' = "fill"
  /\ UNCHANGED <<map, bufferCap, regionCap, handed>>

\* The loop over the descriptors, and fill_boot_info.
FillTables ==
  /\ pc = "fill"
  /\ handed' = read
  /\ pc' = "exit"
  /\ UNCHANGED <<map, bufferCap, regionCap, read>>

\* Mutant: the map is read again for its key, and the table not filled again.
ExitRefusedKeepsTable ==
  /\ pc = "exit" /\ read.version # map.version
  /\ read' = map
  /\ pc' = "exit"
  /\ UNCHANGED <<map, bufferCap, regionCap, handed>>

\* ExitBootServices with a key that is no longer the map's: EFI_INVALID_PARAMETER.
ExitRefused ==
  /\ pc = "exit" /\ read.version # map.version
  /\ pc' = "read"
  /\ UNCHANGED <<map, bufferCap, regionCap, read, handed>>

\* ExitBootServices succeeds and the kernel is entered.
ExitBootServices ==
  /\ pc = "exit" /\ read.version = map.version
  /\ pc' = "kernel"
  /\ UNCHANGED <<map, bufferCap, regionCap, read, handed>>

\* A call failed: the loader says so and returns. GetMemoryMap fails for sure
\* if its buffer is too small.
Return ==
  /\ pc \in {"files", "probe", "tables", "read", "exit"}
  /\ pc' = "returned"
  /\ UNCHANGED <<map, bufferCap, regionCap, read, handed>>

Over == pc \in {"kernel", "returned"} /\ UNCHANGED loaderVars

LoaderNext ==
  \/ FirmwareEvent
  \/ LoadFiles \/ ProbeMap \/ AllocateTables
  \/ ReadMap \/ FillTables \/ ExitRefused \/ ExitBootServices
  \/ Return \/ Over

LoaderSpec == LoaderInit /\ [][LoaderNext]_loaderVars

-----------------------------------------------------------------------------
(***************************************************************************)
(* Properties.                                                             *)
(***************************************************************************)

\* The kernel gets the memory map as it is when the firmware is gone, however
\* often it changed while the loader read it: it shows everything the loader
\* has allocated, the table itself included, so that the kernel's page
\* allocator leaves that alone, and it fits the table.
HandoverCurrent ==
  pc = "kernel" =>
    /\ handed = map
    /\ {"kernel", "initramfs", "regions", "info"} \subseteq handed.loader
    /\ handed.entries <= regionCap
=============================================================================
