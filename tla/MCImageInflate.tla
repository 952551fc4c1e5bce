--------------------------- MODULE MCImageInflate ---------------------------
(* ImageInflate in the layouts of a source tree and of an installation.    *)
EXTENDS ImageInflate

(* cargo run with the archive only or with an inflated image, an           *)
(* installation that was inflated before, a fresh one, and one torn apart. *)
MCLayouts ==
    { [exe |-> {}, crate |-> {"dll", "zst"}],
      [exe |-> {}, crate |-> {"dll", "zst", "image"}],
      [exe |-> {"dll", "image"}, crate |-> {"dll", "zst"}],
      [exe |-> {"dll", "zst"}, crate |-> {}],
      [exe |-> {"dll"}, crate |-> {"zst"}] }
=============================================================================
