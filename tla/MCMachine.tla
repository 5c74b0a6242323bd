----------------------------- MODULE MCMachine -----------------------------
(***************************************************************************)
(* The memory allocators and the devices on small instances.               *)
(* They share no state, so one run checks each of them in turn: part picks *)
(* the one that moves, and the others keep their initial state.            *)
(***************************************************************************)
EXTENDS Palloc, Malloc, Serial, Ide, Console, Kbd, Vga, TLC

CONSTANTS r1, r2, w1, w2

VARIABLE part

Parts == {"palloc", "malloc", "serial", "ide", "console", "kbd", "vga"}

TwoReaders == {r1, r2}
TwoWriters == {w1, w2}
SerialSymmetry == Permutations(TwoReaders) \cup Permutations(TwoWriters)

MCInit ==
  /\ part \in Parts
  /\ palloc_init /\ MallocStart /\ SerialInit /\ ide_init
  /\ console_init /\ kbd_init /\ vga_init
  /\ part # "vga" => cx = 0 /\ cy = 0

MCNext ==
  /\ UNCHANGED part
  /\ \/ part = "palloc" /\ PallocNext
        /\ UNCHANGED <<mvars, svars, ide_vars, con_vars, kbd_vars, vga_vars>>
     \/ part = "malloc" /\ MallocNext
        /\ UNCHANGED <<pvars, svars, ide_vars, con_vars, kbd_vars, vga_vars>>
     \/ part = "serial" /\ SerialNext
        /\ UNCHANGED <<pvars, mvars, ide_vars, con_vars, kbd_vars, vga_vars>>
     \/ part = "ide" /\ IdeNext
        /\ UNCHANGED <<pvars, mvars, svars, con_vars, kbd_vars, vga_vars>>
     \/ part = "console" /\ ConsoleNext
        /\ UNCHANGED <<pvars, mvars, svars, ide_vars, kbd_vars, vga_vars>>
     \/ part = "kbd" /\ KbdNext
        /\ UNCHANGED <<pvars, mvars, svars, ide_vars, con_vars, vga_vars>>
     \/ part = "vga" /\ VgaNext
        /\ UNCHANGED <<pvars, mvars, svars, ide_vars, con_vars, kbd_vars>>

MCSpec == MCInit /\ [][MCNext]_<<part, pvars, mvars, svars, ide_vars,
                                 con_vars, kbd_vars, vga_vars>>
=============================================================================
