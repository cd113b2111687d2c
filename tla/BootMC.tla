------------------------------- MODULE BootMC -------------------------------
EXTENDS Boot

\* Flash contents: one in order whose kernel ends inside a page, one whose
\* header claims more than the partition, one with two placeholders and one
\* beyond the end of the tree, and each defect alone.
Good == [found |-> {"kernel", "dtb", "rootfs"}, magic |-> TRUE, image_size |-> 3,
         dtb_magic |-> TRUE, total |-> 4, needles |-> {1}]

MCFlashes ==
    {Good,
     [Good EXCEPT !.image_size = 9], [Good EXCEPT !.image_size = 0],
     [Good EXCEPT !.needles = {0, 2}], [Good EXCEPT !.needles = {3}],
     [Good EXCEPT !.needles = {}], [Good EXCEPT !.total = 3], [Good EXCEPT !.total = 3, !.needles = {2}],
     [Good EXCEPT !.magic = FALSE], [Good EXCEPT !.dtb_magic = FALSE],
     [Good EXCEPT !.total = 1], [Good EXCEPT !.total = 5],
     [Good EXCEPT !.found = {"dtb", "rootfs"}],
     [Good EXCEPT !.found = {"kernel", "dtb"}]}

\* The register at reset: all clear, all set, and each half of the display's field
\* with the fields of the divider set differently.
MCResets == {{}, 0..31, {30} \cup 9..12, {31} \cup 13..29}
=============================================================================
