----------------------------- MODULE MCLibrary ------------------------------
(***************************************************************************)
(* The sequential parts side by side: formatted output, a window on the    *)
(* screen (once with one writer and every kind of overflow, once with two  *)
(* writers that race as the users of printk do), and the way of a program  *)
(* through the disk image.  Only part moves in a behaviour.                *)
(***************************************************************************)
EXTENDS Integers, Sequences

CONSTANTS w1, w2

VARIABLES
    part,
    state, spec, bufsz, file, text, field, result,
    screen, t, parser, putc, page,
    at, vm, files, im, geometry, cpu, memory, found

format == <<state, spec, bufsz, file, text, field, result>>
terminal == <<screen, t, parser, putc, page>>
image == <<at, vm, files, im, geometry, cpu, memory, found>>
vars == <<part, format, terminal, image>>

F == INSTANCE Formatting WITH
        Specifiers <- {"d", "u", "x", "o", "c", "s", "%", "p"},
        Flags <- SUBSET {"left", "plus", "space", "alt", "zero"},
        Widths <- {-3, 4}, Precisions <- {-1, 0, 2}, Values <- {-11, 0, 5, 16},
        Strings <- {<<>>, <<97, 97, 97>>}, MaxSize <- 6

Window == INSTANCE Terminal WITH
        Writers <- {w1}, Rows <- 3, Cols <- 3, StartRow <- 1, Height <- 2,
        StartCol <- 1, Width <- 2, Modes <- {"clip", "scroll", "grow"},
        ShowCursor <- TRUE, MaxParam <- 3
Shared == INSTANCE Terminal WITH
        Writers <- {w1, w2}, Rows <- 3, Cols <- 2, StartRow <- 1, Height <- 2,
        StartCol <- 1, Width <- 1, Modes <- {"scroll"},
        ShowCursor <- FALSE, MaxParam <- 2

\* Program headers: sections with and without bss, a first page that is not
\* filled from its start, segments with a gap, empty and not executable ones.
Ph(v, f, m, x) == [vaddr |-> v, filesz |-> f, memsz |-> m, exec |-> x]
D == INSTANCE DiskImage WITH
        SECTOR_SIZE <- 3, PAGE_SIZE <- 6, KERNEL_PADDR <- 6, PROCESS_VADDR <- 18,
        Kernels <- {<<Ph(6, 4, 9, TRUE)>>,
                    <<Ph(7, 1, 1, TRUE), Ph(9, 2, 5, TRUE), Ph(20, 1, 1, FALSE)>>},
        Programs <- {<<Ph(18, 3, 3, TRUE)>>, <<Ph(19, 2, 8, TRUE)>>,
                     <<Ph(18, 1, 1, TRUE), Ph(21, 0, 0, TRUE), Ph(24, 2, 3, TRUE),
                       Ph(31, 2, 2, FALSE)>>},
        MaxProcesses <- 3,
        Geometries <- [head_max : {0, 1}, sector_max : {1, 2, 63}]

NoFormat ==
    /\ state = 0 /\ spec = 0 /\ bufsz = 0 /\ file = 0 /\ text = 0 /\ field = 0
    /\ result = 0
NoTerminal == screen = 0 /\ t = 0 /\ parser = 0 /\ putc = 0 /\ page = 0
NoImage ==
    /\ at = 0 /\ vm = 0 /\ files = 0 /\ im = 0 /\ geometry = 0 /\ cpu = 0
    /\ memory = 0 /\ found = 0

Init ==
    \/ part = "format" /\ F!Init /\ NoTerminal /\ NoImage
    \/ part = "window" /\ Window!Init /\ NoFormat /\ NoImage
    \/ part = "shared" /\ Shared!Init /\ NoFormat /\ NoImage
    \/ part = "image" /\ D!Init /\ NoFormat /\ NoTerminal

Only(p) == part = p /\ UNCHANGED part
Printf == Only("format") /\ F!Next /\ UNCHANGED <<terminal, image>>
OnWindow == Only("window") /\ Window!Next /\ UNCHANGED <<format, image>>
OnShared == Only("shared") /\ Shared!Next /\ UNCHANGED <<format, image>>
OnImage == Only("image") /\ D!Next /\ UNCHANGED <<format, terminal>>

Next == Printf \/ OnWindow \/ OnShared \/ OnImage

Spec == Init /\ [][Next]_vars

-----------------------------------------------------------------------------
(* Properties *)

\* stdio_core.c: vsnprintf() keeps to its buffer, terminates it, returns the
\* length of the whole text, and a number can be read back from its field.
SnprintfContract == part = "format" => F!SnprintfContract

\* termbuf.c: other windows are never written, and with one writer the window
\* shows the lines that were printed.
WindowSound ==
    /\ part = "window" => Window!OthersUntouched /\ Window!ShowsPage
    /\ part = "shared" => Shared!OthersUntouched

\* createimage.c, bootblock.S, readdir(), shell.c: what is loaded is what was
\* linked.
LoadsWhatWasLinked == part = "image" => D!LoadsWhatWasLinked
=============================================================================
