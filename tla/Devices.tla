------------------------------ MODULE Devices ------------------------------
(***************************************************************************)
(* The drivers (drivers.cpp, driver.hpp) and the tree of devices           *)
(* (devices.cpp).  A path is the name of the driver, that of the device    *)
(* and a number; format_path puts the last two in the spelling used here.  *)
(***************************************************************************)
EXTENDS Interrupts, Sequences

VARIABLES
  drivers,            \* the drivers loaded, in order
  enabled,            \* the drivers' flag
  attached_devices,   \* the drivers' count of devices
  device_tree,        \* the paths of the devices, in order
  callbacks           \* the PIT driver's: what runs on a tick

deviceVars == <<drivers, enabled, attached_devices, device_tree, callbacks>>

Drivers == {"framebuffer", "ps2", "pit", "rtc"}

DevicesInit ==
  /\ drivers = <<>>
  /\ enabled = [d \in Drivers |-> FALSE]
  /\ attached_devices = [d \in Drivers |-> 0]
  /\ device_tree = <<>>
  /\ callbacks = <<>>

Loaded(driver) == \E i \in DOMAIN drivers : drivers[i] = driver

\* get_new_subsystem_idx counts the device and gives it the count for a number.
add_device(driver, name) ==
  /\ attached_devices' = [attached_devices EXCEPT ![driver] = @ + 1]
  /\ device_tree' = Append(device_tree, <<driver, name, attached_devices'[driver]>>)

get_device_by_path(path) == \E i \in DOMAIN device_tree : device_tree[i] = path

\* load_drivers: the frame buffer's object has been made by FrameBuffer::init and
\* is not in the list.
load_drivers ==
  /\ drivers' = <<"ps2", "pit", "rtc">>
  /\ add_device("framebuffer", "console")
  /\ UNCHANGED <<enabled, callbacks>>

enable(driver, irq) ==
  /\ enabled' = [enabled EXCEPT ![driver] = TRUE]
  /\ unmask_irq(irq)

disable(driver, irq) ==
  /\ enabled' = [enabled EXCEPT ![driver] = FALSE]
  /\ mask_irq(irq)

on_tick(callback) == callbacks' = Append(callbacks, callback)
=============================================================================
