----------------------------- MODULE MCInstaller -----------------------------
EXTENDS Installer

MCSources ==
    {[bare |-> 1, lha |-> 0, lacks |-> {}],
     [bare |-> 0, lha |-> 1, lacks |-> {}],
     [bare |-> 2, lha |-> 0, lacks |-> {"SerialShell", "AmiDock", "helpers"}],
     [bare |-> 1, lha |-> 0, lacks |-> {"upd3"}],
     [bare |-> 0, lha |-> 2, lacks |-> {"MCPd"}]}
=============================================================================
