------------------------------ MODULE DiskImage ------------------------------
(***************************************************************************)
(* From ELF files to running programs: createimage.c writes boot block,    *)
(* kernel, process directory and programs into one image; the boot block   *)
(* (boot/bootblock.S) loads the kernel from it with the BIOS; the shell's  *)
(* command load looks a program up in the directory, and its pages are     *)
(* read where the directory says.                                          *)
(*                                                                         *)
(* The image is a sequence of units.  A unit is <<f, v, 0>>, what file f   *)
(* has at virtual address v; <<0, 0, 0>>; or one of the two numbers that   *)
(* createimage writes itself, the size of the OS and a directory entry.    *)
(***************************************************************************)
EXTENDS Integers, SequencesExt

CONSTANTS
    SECTOR_SIZE, PAGE_SIZE,         \* in units; a directory entry is one unit
    KERNEL_PADDR, PROCESS_VADDR,
    Kernels, Programs,              \* sequences of program headers
    MaxProcesses,
    Geometries                      \* the drive's heads and sectors

KERNEL_SECTOR == 2
OS_SIZE_LOC == 1

VARIABLES
    at,         \* "image", "failed", "boot", "forward", "load", "halt", "kernel"
    vm,         \* the option --vm
    files,      \* boot block, kernel, processes
    im,         \* struct image_t
    geometry,   \* head_max, sector_max
    cpu,        \* cylinder, head, sector, the count SI and the segment ES
    memory,     \* what has been loaded
    found       \* what the shell's last load found: number and entry

imageVars == <<at, vm, files, im, geometry, cpu, memory, found>>

Zero == <<0, 0, 0>>
OsSize(n) == <<-2, n, 0>>
Entry(location, size) == <<-1, location, size>>
Behind == Entry(-1, -1)         \* whatever follows the buffer of a sector

Bootblock ==
    <<[vaddr |-> 0, filesz |-> SECTOR_SIZE, memsz |-> SECTOR_SIZE, exec |-> TRUE]>>

Init ==
    /\ at = "image" /\ vm \in BOOLEAN
    /\ \E k \in Kernels : \E n \in 0 .. MaxProcesses : \E ps \in [1 .. n -> Programs] :
          files = <<Bootblock, k>> \o ps
    /\ im = [data |-> <<>>, done |-> 0, offset |-> 0, pd_loc |-> 0, pd_lim |-> 0,
             location |-> 0, size |-> 0, error |-> FALSE]
    /\ geometry = [head_max |-> 0, sector_max |-> 0]
    /\ cpu = [c |-> 0, h |-> 0, s |-> 1, si |-> 0, es |-> 0]
    /\ memory = <<>>
    /\ found = <<>>

-----------------------------------------------------------------------------
(* createimage *)

PadTo(data, n) == data \o [i \in 1 .. n - Len(data) |-> Zero]
ALIGN_PAGE_DOWN(a) == (a \div PAGE_SIZE) * PAGE_SIZE

process_start(i, vaddr) ==
    [i EXCEPT !.location = Len(i.data) \div SECTOR_SIZE,
              !.offset = IF i.data = <<>> THEN 0
                         ELSE IF ~vm THEN SECTOR_SIZE - KERNEL_PADDR
                         ELSE Len(i.data) - ALIGN_PAGE_DOWN(vaddr)]

\* The padding before the segment, its bytes in the file, and its bss.
write_segment(i, f, ph) ==
    LET phyaddr == ph.vaddr + i.offset
        bytes == [k \in 1 .. ph.memsz |->
                     IF k <= ph.filesz THEN <<f, ph.vaddr + k - 1, 0>> ELSE Zero]
    IN  IF ph.memsz = 0 \/ i.error THEN i
        ELSE IF phyaddr < Len(i.data) THEN [i EXCEPT !.error = TRUE]
        ELSE [i EXCEPT !.data = PadTo(@, phyaddr) \o bytes]

process_end(i) ==
    LET sectors == (Len(i.data) + SECTOR_SIZE - 1) \div SECTOR_SIZE
    IN  [i EXCEPT !.data = PadTo(@, sectors * SECTOR_SIZE), !.size = sectors - i.location]

\* Only loadable, executable segments reach the image; but the first program
\* header decides where it begins, whatever its type.
add_file(i, f) ==
    process_end(
        FoldLeft(LAMBDA acc, ph : IF ph.exec THEN write_segment(acc, f, ph) ELSE acc,
                 process_start(i, files[f][1].vaddr), files[f]))

\* A short, without the boot block.
write_os_size(i) ==
    [i EXCEPT !.data[OS_SIZE_LOC + 1] =
        OsSize((Len(i.data) \div SECTOR_SIZE - 1) % 65536)]

reserve_process_dir(i) ==
    [i EXCEPT !.pd_loc = Len(i.data), !.pd_lim = Len(i.data) + SECTOR_SIZE,
              !.data = PadTo(@, Len(@) + SECTOR_SIZE)]

FillDirectory(i) ==
    IF i.pd_loc + 1 > i.pd_lim THEN [i EXCEPT !.error = TRUE]
    ELSE [i EXCEPT !.data[i.pd_loc + 1] = Entry(i.location, i.size), !.pd_loc = @ + 1]

add_process_to_dir(i) ==
    IF i.pd_loc + 1 >= i.pd_lim THEN [i EXCEPT !.error = TRUE]
    ELSE [i EXCEPT !.data[i.pd_loc + 1] = Entry(i.location, i.size), !.pd_loc = @ + 1]

\* A turn of create_image(): the next file, and what follows it.
AddFile ==
    LET f == im.done + 1
        added == [add_file(im, f) EXCEPT !.done = f]
        i == IF ~vm \/ f = 1 \/ added.error THEN added
             ELSE IF f = 2 THEN reserve_process_dir(write_os_size(added))
             ELSE add_process_to_dir(added)
    IN  /\ at = "image" /\ f <= Len(files)
        /\ im' = i
        /\ at' = IF i.error THEN "failed" ELSE at
        /\ UNCHANGED <<vm, files, geometry, cpu, memory, found>>

ImageDone ==
    /\ at = "image" /\ im.done = Len(files)
    /\ im' = IF vm THEN im ELSE write_os_size(im)
    /\ at' = "boot"
    /\ UNCHANGED <<vm, files, geometry, cpu, memory, found>>

-----------------------------------------------------------------------------
(* The boot block *)

\* disk_cx_pack() and disk_cx_unpack(): ten bits of cylinder, six of sector.
disk_cx_pack(c, s) == (c % 256) * 256 + ((c \div 256) % 4) * 64 + (s % 64)
disk_cx_unpack(cx) ==
    [c |-> cx \div 256 + ((cx % 256) \div 64) * 256, s |-> cx % 64]

\* disk_chs_inc_unpacked(): the head is a byte.
disk_chs_inc_unpacked(r) ==
    IF r.s + 1 <= geometry.sector_max THEN [r EXCEPT !.s = @ + 1]
    ELSE IF (r.h + 1) % 256 <= geometry.head_max
         THEN [r EXCEPT !.s = 1, !.h = (@ + 1) % 256]
    ELSE [r EXCEPT !.s = 1, !.h = 0, !.c = @ + 1]

\* disk_get_geometry(), unless the BIOS reports an error.
GetGeometry(g) ==
    /\ at = "boot"
    /\ geometry' = g
    /\ at' = "forward"
    /\ UNCHANGED <<vm, files, im, cpu, memory, found>>

\* The start of disk_load_kernel(): on to KERNEL_SECTOR, counted from 1.
Forward ==
    /\ at = "forward"
    /\ cpu' = [FoldLeft(LAMBDA r, n : disk_chs_inc_unpacked(r), cpu,
                        [n \in 1 .. KERNEL_SECTOR - 1 |-> n])
               EXCEPT !.si = im.data[OS_SIZE_LOC + 1][2], !.es = KERNEL_PADDR]
    /\ at' = "load"
    /\ UNCHANGED <<vm, files, im, geometry, memory, found>>

\* Where the BIOS finds a packed address.
Lba(cx, h) ==
    LET u == disk_cx_unpack(cx)
    IN  (u.c * (geometry.head_max + 1) + h) * geometry.sector_max + u.s - 1

\* A turn of the loop over the sectors.  The destination is a segment, so
\* that the kernel may be larger than an offset can reach.
ReadSector ==
    LET cx == disk_cx_pack(cpu.c, cpu.s)
        u == disk_cx_unpack(cx)
        lba == Lba(cx, cpu.h)
        sector == [a \in cpu.es .. cpu.es + SECTOR_SIZE - 1 |->
                      im.data[lba * SECTOR_SIZE + a - cpu.es + 1]]
    IN  /\ at = "load" /\ cpu.si # 0
        /\ memory' = [a \in DOMAIN memory \cup DOMAIN sector |->
                         IF a \in DOMAIN sector THEN sector[a] ELSE memory[a]]
        /\ cpu' = [disk_chs_inc_unpacked([cpu EXCEPT !.c = u.c, !.s = u.s])
                   EXCEPT !.si = @ - 1, !.es = @ + SECTOR_SIZE]
        /\ UNCHANGED <<at, vm, files, im, geometry, found>>

LaunchKernel ==
    /\ at = "load" /\ cpu.si = 0
    /\ at' = "kernel"
    /\ UNCHANGED <<vm, files, im, geometry, cpu, memory, found>>

\* The carry flag after either BIOS call: error, then halt.
BiosError ==
    /\ at \in {"boot", "load"} /\ (at = "load" => cpu.si # 0)
    /\ at' = "halt"
    /\ UNCHANGED <<vm, files, im, geometry, cpu, memory, found>>

-----------------------------------------------------------------------------
(* The kernel and the shell *)

\* readdir(): the sector after the kernel.
Directory ==
    LET os_size == im.data[OS_SIZE_LOC + 1][2]
    IN  SubSeq(im.data, (os_size + 1) * SECTOR_SIZE + 1, (os_size + 2) * SECTOR_SIZE)

\* The shell's load n: n entries on, but not past the first empty one.  When
\* none of the sector is empty it goes on behind the buffer.
Load(n) ==
    LET empty == {k \in 1 .. Len(Directory) : Directory[k][2] = 0}
        skipped == {p \in 0 .. Len(Directory) :
                       p >= n \/ p + 1 \in empty \/ p = Len(Directory)}
        p == CHOOSE q \in skipped : \A r \in skipped : q <= r
        entry == IF p < Len(Directory) THEN Directory[p + 1] ELSE Behind
    IN  /\ at = "kernel" /\ vm /\ found = <<>>
        /\ found' = IF entry[2] # 0 THEN <<n, entry>> ELSE <<n>>
        /\ UNCHANGED <<at, vm, files, im, geometry, cpu, memory>>

\* load_page_from_disk(): the unit of the image that appears at address v of
\* a process with this entry, <<>> when no sector read holds it.
load_page_from_disk(entry, v) ==
    LET per_page == PAGE_SIZE \div SECTOR_SIZE
        disk_offset == ((v - PROCESS_VADDR) \div PAGE_SIZE) * per_page
        left == entry[3] - disk_offset
        block_count == IF left < per_page THEN left ELSE per_page
        in_page == v % PAGE_SIZE
    IN  IF in_page < block_count * SECTOR_SIZE
        THEN im.data[(entry[2] + disk_offset) * SECTOR_SIZE + in_page + 1] ELSE <<>>

\* The next command.
LoadDone ==
    /\ found # <<>>
    /\ found' = <<>>
    /\ UNCHANGED <<at, vm, files, im, geometry, cpu, memory>>

Next ==
    \/ AddFile \/ ImageDone
    \/ \E g \in Geometries : GetGeometry(g)
    \/ Forward \/ ReadSector \/ LaunchKernel \/ BiosError
    \/ \E n \in -1 .. MaxProcesses + 1 : Load(n)
    \/ LoadDone

Spec == Init /\ [][Next]_imageVars

-----------------------------------------------------------------------------
(* Properties *)

\* What a reader of file f's program headers expects in memory.
Linked(f) ==
    UNION {{<<ph.vaddr + k,
              IF k < ph.filesz THEN <<f, ph.vaddr + k, 0>> ELSE Zero>> :
            k \in 0 .. ph.memsz - 1} : ph \in {q \in Range(files[f]) : q.exec}}

\* When the boot block jumps to the kernel, every byte and every bss byte of
\* it lies at the address it was linked for, whatever the drive's geometry;
\* without --vm so do the programs.  With --vm, load n gives program n, with
\* every byte of it within the sectors that the page fault handler reads for
\* its page; and reports "File not found" for any n past the last program,
\* also when the directory is as full as createimage lets it become.
LoadsWhatWasLinked ==
    /\ at = "kernel" =>
          \A f \in IF vm THEN {2} ELSE 2 .. Len(files) : \A b \in Linked(f) :
             b[1] \in DOMAIN memory /\ memory[b[1]] = b[2]
    /\ found # <<>> =>
          LET f == (IF found[1] < 0 THEN 0 ELSE found[1]) + 3
          IN  /\ (Len(found) = 2) = (f <= Len(files))
              /\ f <= Len(files) =>
                    \A b \in Linked(f) : load_page_from_disk(found[2], b[1]) = b[2]
=============================================================================
