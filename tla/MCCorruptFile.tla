--------------------------- MODULE MCCorruptFile ---------------------------
EXTENDS CorruptFileProperties

\* Regions that start at 0 or not and end inside the file, at its end or not at
\* all; chunks of one or two bytes; one chunk in one, or in two.
Regions(modes, Probabilities, Ends) ==
    {[DefaultOpts EXCEPT !.file = "present", !.mode = m, !.start = s, !.end = e,
                         !.chunk_size = z, !.mod = d, !.index = i,
                         !.probability = p] :
        m \in modes, s \in {0, 1}, e \in Ends, z \in {1, 2}, d \in {1, 2},
        i \in {0, 1}, p \in Probabilities}

\* Command lines that name no file, or one that is not there, or no mode.
Odd == {[DefaultOpts EXCEPT !.file = f, !.mode = m, !.clear_snapshots = c] :
           f \in {"none", "absent"}, m \in {"none", "copy"}, c \in BOOLEAN}

\* Every mode over every region.  At 50 percent a chunk may be skipped or not;
\* 0 adds the rate that corrupt_bitflip divides by.
AllModes ==
    Regions({"copy", "snapshot", "restore"}, {50}, {3, OffMax})
    \cup Regions({"bitflip"}, {0, 50}, {3, OffMax})
    \cup Odd

\* Snapshots and restores of any region, one way to flip bits in between.
Rollbacks ==
    Regions({"snapshot", "restore"}, {100}, {3})
    \cup {[DefaultOpts EXCEPT !.file = "present", !.mode = "bitflip",
                              !.start = 2, !.end = 4, !.chunk_size = 4],
          [DefaultOpts EXCEPT !.clear_snapshots = TRUE]}
============================================================================
