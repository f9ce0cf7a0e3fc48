------------------------------ MODULE MCPsrCache ------------------------------
EXTENDS PsrCache

\* One flag, "c", stands for them all: what becomes of one does not depend on the others.

MCGuestWords ==
    {[flags |-> {"c"}, masked |-> FALSE, thumb |-> FALSE, mode |-> "user"],
     [flags |-> {}, masked |-> FALSE, thumb |-> TRUE, mode |-> "svc"],
     [flags |-> {"c"}, masked |-> TRUE, thumb |-> FALSE, mode |-> "irq"]}

Saved(flags, thumb) ==
    [flags |-> flags, masked |-> FALSE, thumb |-> thumb, mode |-> "user"]

\* One made while a game waits for an interrupt, one made in the middle of a handler.
MCSavedStates ==
    {[cpsr |-> Saved({"c"}, TRUE), spsr |-> [e \in Exceptions |-> Saved({}, FALSE)],
      halted |-> TRUE],
     [cpsr |-> [flags |-> {"c"}, masked |-> TRUE, thumb |-> FALSE, mode |-> "irq"],
      spsr |-> [e \in Exceptions |-> Saved({"c"}, e = "irq")], halted |-> FALSE]}
=============================================================================
