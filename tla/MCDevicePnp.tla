----------------------------- MODULE MCDevicePnp -----------------------------
(***************************************************************************)
(* Instances of DevicePnp for TLC: devices of five shapes, each with one   *)
(* or two alternate settings, and a registry with and without a value.     *)
(***************************************************************************)
EXTENDS DevicePnp

\* A Rio, a device whose first setting is empty, one with an interrupt pipe in
\* front, one with a single bulk pipe before a setting of three, one without pipes.
MCDevices == { << <<"bulk", "bulk">> >>,
               << <<>>, <<"bulk", "bulk">> >>,
               << <<"interrupt", "bulk", "bulk">>, <<"bulk">> >>,
               << <<"bulk">>, <<"bulk", "bulk", "bulk">> >>,
               << <<>>, <<>> >> }
RioOnly == { << <<"bulk", "bulk">> >> }
MCRegistryValues == {0, 3}

=============================================================================
