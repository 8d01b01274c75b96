------------------------------ MODULE MCKernel ------------------------------
EXTENDS Kernel

MCOpcodes == {"add_task", "update_memory", "bless_path", "*"}

(* Paths a caller names as the documents do, and as the program prints them. *)
MCTexts == {<<"/memory/", "private", "/key">>, <<"/memory/", "Public", "/key">>}
MCDeniablePaths == {<<"/memory/", "private">>, <<"/memory/", "Private">>}

(* One token that may do everything but touch what is called private, and  *)
(* one that may only add tasks, with a blessing, expires earlier, and has  *)
(* the private memory denied as the program prints it.                     *)
MCRoots ==
    {[id |-> 0, allowed |-> [o \in {"*"} |-> FALSE], denied |-> {<<"/memory/", "private">>},
      expiry |-> 3, chain |-> <<>>],
     [id |-> -1, allowed |-> [o \in {"add_task"} |-> TRUE],
      denied |-> {<<"/memory/", "Private">>}, expiry |-> 2, chain |-> <<>>]}
=============================================================================
