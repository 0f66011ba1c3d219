----------------------------- MODULE PaeSwitch -----------------------------
(***************************************************************************)
(* The kernel's dynamic memory at start-up and the switch to PAE tables:   *)
(* transfer_dynamic (kernel/memory/pmm.c), vmm_transfer_dynamic (vmm.c),   *)
(* init_heap (heap.c), memory_map and init_pae (paging.c), and the pages   *)
(* of the ACPI tables (mb_parse.c, acpi.c).                                *)
(*                                                                         *)
(* A table of the old directory is the sequence of the frames its entries  *)
(* lead to; use names what the pages of the dynamic area are for.  The     *)
(* area is given out from its start, page after page, because nothing is   *)
(* freed here.  The entry of a second half is stored without its present   *)
(* bit, so a new table keeps the first half of the old one, as it was when *)
(* it was copied.  Device pages have the frame Device.                     *)
(***************************************************************************)
EXTENDS Integers, Sequences, FiniteSets

CONSTANTS HeapPages,   \* 10 in the code
          Half,        \* entries of a new table, 512 in the code
          CodeEnd      \* length of the code of the switch, in units of Unit

\* The code of the switch is measured in 256 bytes.
PageUnits == 16
Align == 4

ASSUME PaeSwitchAssumption ==
    /\ HeapPages \in Nat
    /\ Half \in Nat /\ Half >= HeapPages + 5
    /\ CodeEnd \in 1 .. (PageUnits - Align)

Device == -1
Boot == 0 .. Half           \* what kinit reserves, the temp page's last
Frame == 0 .. (2 * Half + HeapPages + 30)

VARIABLES
    pae,         \* how far kernel_main has come
    frames,      \* the frames that are marked in the bitmap in use
    old,         \* the tables of the old directory
    use,         \* what the pages of the area are for
    table,       \* which table is being copied
    new,         \* the tables behind the new directory
    root,        \* which directory is in use
    eip,         \* where the code of the switch lies, in units
    identity     \* pages of code mapped to themselves, in old and new tables

paeVars == <<pae, frames, old, use, table, new, root, eip, identity>>

Tables == <<"image", "area", "temp", "self">>

FirstTables == [t \in {"image", "area", "temp", "self"} |->
                   CASE t = "image" -> [n \in 1 .. Half |-> n - 1]
                     [] t = "temp"  -> <<Half>>
                     [] OTHER       -> <<>>]
NoTables == [t \in {"image", "area", "temp", "self"} |-> <<>>]

\* As pg_init, init_kpt, kinit and create_vmm leave it.
PaeInit ==
    /\ pae = "bitmap"
    /\ frames = Boot
    /\ old = FirstTables
    /\ use = <<>>
    /\ table = 1
    /\ new = NoTables
    /\ root = "old"
    /\ eip = 0
    /\ identity = {}

\* No later phase reads the state; it goes back to its first value.
PaeOver ==
    /\ pae' = "bitmap"
    /\ frames' = Boot
    /\ old' = FirstTables
    /\ use' = <<>>
    /\ table' = 1
    /\ new' = NoTables
    /\ root' = "old"
    /\ eip' = 0
    /\ identity' = {}

-----------------------------------------------------------------------------

get_first_frame(marked) ==
    CHOOSE f \in Frame \ marked : \A g \in Frame \ marked : f <= g

\* memory_map of the area's next page; create_new_pt takes a frame for the
\* table when there is none yet.
memory_map(frame, marked) ==
    /\ old' = [old EXCEPT !["area"] = Append(@, frame)]
    /\ frames' = IF old["area"] = <<>>
                 THEN marked \union {get_first_frame(marked)}
                 ELSE marked

\* page_kalloc of one page, for its own frame or for a device.
page_kalloc(what) ==
    LET frame == get_first_frame(frames)
    IN  /\ use' = Append(use, what)
        /\ memory_map(frame, frames \union {frame})

page_kalloc_device(what, marked) ==
    /\ use' = Append(use, what)
    /\ memory_map(Device, marked)

\* memory_map of a page below the kernel's: the frames marked after it.  It
\* takes one for the page's table unless the table is there.
Mapped(marked) == {marked, marked \union {get_first_frame(marked)}}

\* init_rsdt_v1 maps the page of the RSDT.  For one that goes on in the next
\* page it maps page 0: the address is masked with ~0xFFF + 4096, which is 0.
MapRsdt(pages) ==
    /\ pae = "bitmap"
    /\ frames' \in IF pages = 1 THEN Mapped(frames)
                  ELSE UNION {Mapped(marked) : marked \in Mapped(frames)}
    /\ UNCHANGED <<pae, old, use, table, new, root, eip, identity>>

BugCopiesFirst ==
    /\ pae = "bitmap"
    /\ LET frame == get_first_frame(frames)
       IN  old' = [old EXCEPT !["area"] = Append(@, frame)]
    /\ use' = Append(use, "bitmap")
    /\ frames' = frames
    /\ pae' = "store"
    /\ UNCHANGED <<table, new, root, eip, identity>>

\* The bitmap is copied into its page after that page was taken from it.
transfer_dynamic ==
    /\ pae = "bitmap"
    /\ page_kalloc("bitmap")
    /\ pae' = "store"
    /\ UNCHANGED <<table, new, root, eip, identity>>

\* vmm_transfer_dynamic.  Its memory_unmap is handed the address of a variable
\* on the stack, finds it unaligned and returns: the temp page stays.
vmm_transfer_dynamic ==
    /\ pae = "store"
    /\ page_kalloc("store")
    /\ pae' = "heap"
    /\ UNCHANGED <<table, new, root, eip, identity>>

Pages(what) == Cardinality({n \in 1 .. Len(use) : use[n] = what})

init_heap ==
    /\ pae = "heap"
    /\ IF Pages("heap") < HeapPages
       THEN page_kalloc("heap") /\ UNCHANGED pae
       ELSE pae' = "lapic" /\ UNCHANGED <<old, use, frames>>
    /\ UNCHANGED <<table, new, root, eip, identity>>

\* cache_sdt_by_signature maps the ACPI tables it reads (bound: they need one
\* page table more).  init_apic then maps the local APIC, and init_ioapic the
\* I/O APIC (apic.c).
MapLapic ==
    /\ pae = "lapic"
    /\ \E marked \in Mapped(frames) : page_kalloc_device("lapic", marked)
    /\ pae' = "ioapic"
    /\ UNCHANGED <<table, new, root, eip, identity>>

MapIoapic ==
    /\ pae = "ioapic"
    /\ page_kalloc_device("ioapic", frames)
    /\ pae' = "cpuid"
    /\ UNCHANGED <<table, new, root, eip, identity>>

-----------------------------------------------------------------------------
(* init_pae.                                                               *)

\* Bit 6 is looked up in eax, which holds the model of the processor.
CheckPae ==
    /\ pae = "cpuid"
    /\ pae' \in {"pdpt", "panic"}
    /\ UNCHANGED <<frames, old, use, table, new, root, eip, identity>>

\* The pages for the new directories; only that of pdpt is used later on.
MakeDirectories ==
    /\ pae \in {"pdpt", "identity_pd", "identity_pt", "new_pd"}
    /\ page_kalloc(pae)
    /\ pae' = CASE pae = "pdpt" -> "identity_pd"
                [] pae = "identity_pd" -> "identity_pt"
                [] pae = "identity_pt" -> "new_pd"
                [] OTHER -> "first_half"
    /\ UNCHANGED <<table, new, root, eip, identity>>

FirstHalf(s) == SubSeq(s, 1, IF Len(s) < Half THEN Len(s) ELSE Half)

\* transfer_pages_to_pae: a page for the new table, then the copy.
CopyFirstHalf ==
    /\ pae = "first_half"
    /\ page_kalloc("new_table")
    /\ new' = [new EXCEPT ![Tables[table]] = FirstHalf(old'[Tables[table]])]
    /\ pae' = "second_half"
    /\ UNCHANGED <<table, root, eip, identity>>

\* The second half is copied too and its table never becomes present.  The
\* entry of the last table's is then used for the directory itself.
CopySecondHalf ==
    /\ pae = "second_half"
    /\ page_kalloc("new_table")
    /\ IF table = Len(Tables)
       THEN pae' = "identity" /\ UNCHANGED table
       ELSE pae' = "first_half" /\ table' = table + 1
    /\ UNCHANGED <<new, root, eip, identity>>

transfer_pages_to_pae == CopyFirstHalf \/ CopySecondHalf

RoundDown(u) == (u \div Align) * Align
RoundUp(u) == ((u + PageUnits - 1) \div PageUnits) * PageUnits
PageOf(u) == u \div PageUnits

BugMapsOnePage(u) == {PageOf(RoundDown(u))}

\* eip is rounded down to 1 KiB; its page and the page at the next multiple of
\* 4 KiB are mapped.
IdentityPages(u) == {PageOf(RoundDown(u)), PageOf(RoundUp(RoundDown(u)))}

\* memory_map takes a frame for the old directory's first table, unless it is
\* there for the ACPI tables.
MapIdentity ==
    /\ pae = "identity"
    /\ eip' \in 0 .. (2 * PageUnits - 1)
    /\ identity' = IdentityPages(eip')
    /\ frames' \in Mapped(frames)
    /\ pae' = "switch"
    /\ UNCHANGED <<old, use, table, new, root>>

\* The code of the switch is left for good.
Switch ==
    /\ pae = "switch"
    /\ root' = "new"
    /\ pae' = "done"
    /\ eip' = 0
    /\ identity' = {}
    /\ UNCHANGED <<frames, old, use, table, new>>

init_pae == CheckPae \/ MakeDirectories \/ transfer_pages_to_pae \/ MapIdentity
            \/ Switch

-----------------------------------------------------------------------------
(* Properties.                                                             *)

Needed == {"bitmap", "store", "heap", "lapic", "ioapic", "pdpt"}

\* The switch loses no page that is used after it: everything the kernel holds
\* a pointer to leads to the same frame as before, although the tables are
\* copied one after the other while their own pages are being mapped, and the
\* code that makes the switch is mapped to itself wherever it lies in a page.
PagesKept ==
    /\ root = "new" =>
          /\ \A n \in 1 .. Len(use) : use[n] \in Needed =>
                n \in DOMAIN new["area"] /\ new["area"][n] = old["area"][n]
          /\ \A t \in {"image", "temp"} : new[t] = old[t]
    /\ pae = "switch" =>
          \A u \in eip .. (eip + CodeEnd) : PageOf(u) \in identity

\* No two pages of the area have one frame and every frame of a page is marked,
\* also across the moment when the bitmap moves into memory it describes.
FramesGivenOnce ==
    \A m, n \in 1 .. Len(use) :
       old["area"][m] # Device =>
          /\ old["area"][m] \in frames \ Boot
          /\ m # n => old["area"][m] # old["area"][n]
=============================================================================
