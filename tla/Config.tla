------------------------------- MODULE Config -------------------------------
(***************************************************************************)
(* configparse.c: the configuration files on the disk, an administrator    *)
(* who edits them, and the tree of directives they are read into.  A       *)
(* directive names its kind; its attributes are those of the record.  Of   *)
(* the text only the order of directives and includes is kept; <die> and   *)
(* malformed files, which end the process or the parse, are left out.      *)
(***************************************************************************)
EXTENDS Naturals, Sequences, SequencesExt, Lists

CONSTANTS
    MaxInclude,  \* MAX_INCLUDE (10 in the code)
    MainFile,    \* CfgSettings.conf_name
    Disks        \* what the files may hold: functions from file names to sequences of items

VARIABLES
    disk,        \* file -> its items; a file with no items is missing or empty
    conf         \* what configparse.c keeps, see NoConf

NoFile == "none"

\* include_stack, include_cnt and config_tree before anything is read.  `over': the
\* stack was written past its last slot.
NoConf == [tree |-> <<>>, cnt |-> 0, stack |-> [i \in 1..MaxInclude |-> NoFile], over |-> FALSE]

\* The files the loop check sees: it stops at the first free slot.
Scanned(c) == {c.stack[i] : i \in {j \in 1..MaxInclude : \A k \in 1..j : c.stack[k] # NoFile}}

\* A file is entered: its name goes to include_stack[include_cnt], which for the
\* last permitted count is the slot after the array.
Entered(c, f) ==
    [c EXCEPT !.cnt = @ + 1,
              !.stack = IF c.cnt < MaxInclude THEN [c.stack EXCEPT ![c.cnt + 1] = f] ELSE @,
              !.over = @ \/ c.cnt = MaxInclude]

\* config_load and config_parse: include directives are followed where they stand.
ConfigLoad(files, start, main) ==
    LET Item == UNION {ToSet(files[f]) : f \in DOMAIN files}
        Conf == [tree : Seq(Item), cnt : Nat, over : BOOLEAN,
                 stack : [1..MaxInclude -> DOMAIN files \cup {NoFile}]]
        load[x \in Conf \X DOMAIN files] ==
            LET c == x[1]
                f == x[2]
            IN  IF c.cnt > MaxInclude \/ f \in Scanned(c) \/ files[f] = <<>> THEN c
                ELSE FoldLeft(LAMBDA d, item : IF item.kind = "include" THEN load[<<d, item.file>>]
                                               ELSE [d EXCEPT !.tree = Append(d.tree, item)],
                              Entered(c, f), files[f])
    IN  load[<<start, main>>]

\* What a process that starts now reads.
Fresh(files) == ConfigLoad(files, NoConf, MainFile)

\* destroy_config_tree: include_cnt stays.
Destroy(c) == [c EXCEPT !.tree = <<>>, !.stack = [i \in 1..MaxInclude |-> NoFile]]

Reloaded == ConfigLoad(disk, Destroy(conf), MainFile)

\* get_config_base.
Base(tree, kind) == Picked(tree, {i \in DOMAIN tree : tree[i].kind = kind})

\* get_config_bool: a directive that says no does not end the search, one that
\* says nothing does, and without any directive the default is not asked.
Bool(tree, kind, default) ==
    LET i == SelectInSeq(Base(tree, kind), LAMBDA d : d.value # "no")
    IN  IF i = 0 THEN FALSE ELSE IF Base(tree, kind)[i].value = "yes" THEN TRUE ELSE default

ConfTypeOK ==
    /\ disk \in Disks
    /\ conf.cnt \in 0..(MaxInclude + 1) /\ conf.over \in BOOLEAN
    /\ DOMAIN conf.stack = 1..MaxInclude

=============================================================================
