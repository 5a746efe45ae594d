----------------------------- MODULE GpioLevels -----------------------------
(* The levels of a GPIO line (gpio_control.h).                              *)

LOW  == 0           \* PIN_LOW_VAL
HIGH == 1           \* PIN_HIGH_VAL

=============================================================================
